---- MODULE Spec2Model ----
(***************************************************************************)
(* A model of the CodeScribe MCP protocol engine (mcp-server.js): the      *)
(* line framer, the JSON-RPC dispatcher, the tool and resource handlers    *)
(* and the transport writer, run by the JavaScript event loop (one         *)
(* synchronous turn per stdin chunk, a FIFO microtask queue for the        *)
(* continuations of awaits, collaborator promises settling at any time).   *)
(***************************************************************************)
EXTENDS Integers, Sequences, FiniteSets, TLC

(***************************************************************************)
(* JSON values.  Every value is a record whose single field names its     *)
(* type, so values of different types are comparable.                      *)
(***************************************************************************)
Undef == [undef |-> TRUE]

Null == [null |-> TRUE]

Num(n) == [num |-> n]

Str(s) == [str |-> s]

Arr(a) == [arr |-> a]

IsUndef(v) == "undef" \in DOMAIN v

IsNull(v) == "null" \in DOMAIN v

IsNum(v) == "num" \in DOMAIN v

IsStr(v) == "str" \in DOMAIN v

Bool(b) == [bool |-> b]

IsBool(v) == "bool" \in DOMAIN v

\* A parsed JSON object that can be a message: its four envelope fields.
IsObject(v) == "jsonrpc" \in DOMAIN v

\* JavaScript truthiness: undefined, null, 0 and "" are falsy; arrays and
\* objects (the empty ones included) are truthy.
Truthy(v) ==
  IF IsUndef(v) \/ IsNull(v) THEN FALSE
  ELSE IF IsNum(v) THEN v.num # 0
  ELSE IF IsStr(v) THEN v.str # ""
  ELSE IF IsBool(v) THEN v.bool
  ELSE TRUE

\* Reading property f of a value: a property of an object, undefined on a
\* number or an array.  (Reading a property of null throws; callers test.)
Get(v, f) == IF f \in DOMAIN v THEN v[f] ELSE Undef

\* a || b
OrElse(a, b) == IF Truthy(a) THEN a ELSE b

(***************************************************************************)
(* Bounds of the model.                                                    *)
(***************************************************************************)
\* number of newline-terminated lines the client writes
MaxLines == 2

\* largest number of characters one "data" event delivers
MaxChunk == 4

(***************************************************************************)
(* The wire: characters, lines, JSON text.                                 *)
(* The JSON text of a message m is the two characters LBrace(m) RBrace(m), *)
(* so that a chunk boundary can fall inside a message.                     *)
(***************************************************************************)
NL == [ch |-> "\n"]

SP == [ch |-> " "]

JUNK == [ch |-> "#"]

LBrace(m) == [lb |-> m]

RBrace(m) == [rb |-> m]

Stringify(m) == <<LBrace(m), RBrace(m)>>

\* The two bytes of the UTF-8 encoding of one character outside ASCII, the
\* character they decode to, and the replacement character U+FFFD.
LEAD == [byte |-> "c3"]

CONT == [byte |-> "a9"]

WIDE == [ch |-> "e9"]

REPL == [ch |-> "fffd"]

\* an id holding the two-byte character, and the same id with the two
\* replacement characters in its place
WideId == [str |-> "caf(e9)"]

ReplacedId == [str |-> "caf(fffd)(fffd)"]

\* the message holds the two-byte character
HasWide(m) == "id" \in DOMAIN m /\ m.id = WideId

\* the JSON text of a message that holds the two-byte character: its two
\* bytes stand between the braces
StringifyWide(m) == <<LBrace(m), LEAD, CONT, RBrace(m)>>

RECURSIVE DataToString(_)
\* Buffer.prototype.toString of one chunk: a complete sequence decodes to
\* its character; a lead byte the chunk ends after, and a continuation
\* byte without its lead byte, decode to U+FFFD each
DataToString(data) ==
  IF data = <<>> THEN <<>>
  ELSE IF Head(data) = LEAD
  THEN IF Len(data) >= 2 /\ data[2] = CONT
       THEN <<WIDE>> \o DataToString(SubSeq(data, 3, Len(data)))
       ELSE <<REPL>> \o DataToString(Tail(data))
  ELSE IF Head(data) = CONT THEN <<REPL>> \o DataToString(Tail(data))
  ELSE <<Head(data)>> \o DataToString(Tail(data))

RECURSIVE IndexOfFrom(_, _, _)
IndexOfFrom(s, c, i) ==
  IF i > Len(s) THEN 0
  ELSE IF s[i] = c THEN i
  ELSE IndexOfFrom(s, c, i + 1)

\* String.prototype.indexOf, 1-based; 0 when absent (the code's -1)
IndexOf(s, c) == IndexOfFrom(s, c, 1)

RECURSIVE TrimLeft(_)
TrimLeft(s) ==
  IF s # <<>> /\ Head(s) = SP THEN TrimLeft(Tail(s)) ELSE s

RECURSIVE TrimRight(_)
TrimRight(s) ==
  IF s # <<>> /\ s[Len(s)] = SP THEN TrimRight(SubSeq(s, 1, Len(s) - 1)) ELSE s

\* String.prototype.trim
Trim(s) == TrimRight(TrimLeft(s))

SyntaxError == [syntaxError |-> TRUE]

\* JSON.parse: surrounding whitespace is allowed, the rest must be exactly
\* one JSON text; anything else is a SyntaxError.
JSONParse(line) ==
  LET t == Trim(line)
      braces == /\ Len(t) >= 2
                /\ "lb" \in DOMAIN t[1]
                /\ "rb" \in DOMAIN t[Len(t)]
                /\ t[1].lb = t[Len(t)].rb
  IN IF braces /\ Len(t) = 2 /\ ~HasWide(t[1].lb) THEN t[1].lb
     ELSE IF braces /\ HasWide(t[1].lb) /\ SubSeq(t, 2, Len(t) - 1) = <<WIDE>>
     THEN t[1].lb
     ELSE IF /\ braces /\ HasWide(t[1].lb)
             /\ SubSeq(t, 2, Len(t) - 1) = <<REPL, REPL>>
     THEN [t[1].lb EXCEPT !.id = ReplacedId]
     ELSE SyntaxError

(***************************************************************************)
(* Messages a client can send.                                             *)
(***************************************************************************)
Msg(jsonrpc, id, method, params) ==
  [jsonrpc |-> jsonrpc, id |-> id, method |-> method, params |-> params]

\* a JSON-RPC 2.0 request
Req(id, method, params) == Msg(Str("2.0"), id, Str(method), params)

Params(name, input) == [name |-> name, input |-> input]

\* an input object with none of the documented properties
NoInput ==
  [folderPath |-> Undef, selectedPaths |-> Undef, ignorePatterns |-> Undef,
   text |-> Undef, model |-> Undef, repoUrl |-> Undef,
   securityCheck |-> Undef, style |-> Undef]

Call(id, name, input) == Req(id, "tools/call", Params(Str(name), input))

GetResource(id, name) == Req(id, "resources/get", Params(name, Undef))

\* the ignore patterns the settings are configured with, and two overrides
ConfiguredPatterns == Arr(<<"node_modules">>)

PatternsA == Arr(<<"a">>)

PatternsB == Arr(<<"b">>)

\* the switch of handleJsonRpcMessage
Methods ==
  {"initialize", "shutdown", "tools/list", "tools/call", "resources/list",
   "resources/get"}

\* the switch of handleToolsCall, in the order of handleToolsList
ToolNames ==
  <<"generate_markdown", "pack_remote_repository", "process_with_security",
    "count_tokens", "get_directory_structure">>

ToolSet == {ToolNames[i] : i \in DOMAIN ToolNames}

(***************************************************************************)
(* Responses.  An error message is the sequence of the parts the template  *)
(* literals concatenate; data is undefined and JSON.stringify omits it.    *)
(* The field req is not on the wire: it records which dispatched message   *)
(* (0: the startup push) the engine was handling when it wrote the line.   *)
(***************************************************************************)
ResultMsg(r, id, result) ==
  [jsonrpc |-> "2.0", id |-> id, result |-> result, req |-> r]

ErrorMsg(r, id, code, message) ==
  [jsonrpc |-> "2.0", id |-> id, error |-> [code |-> code, message |-> message],
   req |-> r]

LogLine(text) == [log |-> text]

IsResponse(o) == "jsonrpc" \in DOMAIN o

IsResult(o) == "result" \in DOMAIN o

IsError(o) == "error" \in DOMAIN o

InitializeResult ==
  [serverName |-> "Markdown Generator MCP Server",
   serverVersion |-> "1.0.0",
   protocolVersion |-> "0.1",
   capabilities |->
     [tools |-> TRUE, resources |-> TRUE, prompts |-> FALSE, roots |-> FALSE]]

\* the descriptors of handleToolsList: name and required list
ToolDescriptors ==
  <<[name |-> "generate_markdown", required |-> <<"folderPath">>],
    [name |-> "pack_remote_repository", required |-> <<"repoUrl">>],
    [name |-> "process_with_security", required |-> <<"folderPath">>],
    [name |-> "count_tokens", required |-> <<"text">>],
    [name |-> "get_directory_structure", required |-> <<"folderPath">>]>>

ResourceDescriptors ==
  <<[name |-> "settings", properties |-> <<"ignorePatterns", "anthropicApiKey">>]>>

Redacted == "[REDACTED]"

EmptyObject == [x \in {} |-> TRUE]

(***************************************************************************)
(* Collaborators: their results are inputs of the model.                   *)
(***************************************************************************)
File(p) == [type |-> "file", path |-> p]

Dir(p, children) == [type |-> "directory", path |-> p, children |-> children]

\* trees the scanner can return
Trees ==
  {Dir("/p", <<>>),
   Dir("/p", <<File("/p/a"), Dir("/p/d", <<File("/p/d/b")>>), File("/p/c")>>)}

\* documents the assembler or the packaging tool can return
Contents == {"", "hello"}

Ok(v) == [ok |-> v]

Fail(e) == [fail |-> e]

IsOk(o) == "ok" \in DOMAIN o

\* the await points at which a request waits for a collaborator
Waiting == {"scan", "gen", "remote", "local", "api"}

RECURSIVE CollectFilePaths(_)
RECURSIVE CollectChildren(_)
\* variant: the path of a directory is pushed before those of its children
CollectFilePathsWithDirectories(item) ==
  IF item.type = "file" THEN <<item.path>>
  ELSE IF "children" \in DOMAIN item
       THEN <<item.path>> \o CollectChildren(item.children)
       ELSE <<>>

\* collectFilePaths of handleGenerateMarkdown: the paths pushed for one item
CollectFilePaths(item) ==
  IF item.type = "file" THEN <<item.path>>
  ELSE IF "children" \in DOMAIN item THEN CollectChildren(item.children)
  ELSE <<>>

\* item.children.forEach(collectFilePaths)
CollectChildren(items) ==
  IF items = <<>> THEN <<>>
  ELSE CollectFilePaths(Head(items)) \o CollectChildren(Tail(items))

(***************************************************************************)
(* tokenCounters.js                                                        *)
(***************************************************************************)
\* encoder.encode(text).length: js-tiktoken is an external library; the
\* model takes one token per character as its deterministic count.
EncodeLength(text) == Len(text)

\* variant: without a tokenizer the count is reported as zero
CountOpenAITokensZero(text, tiktoken) ==
  IF tiktoken THEN EncodeLength(text) ELSE 0

\* countOpenAITokens: -1 when the tokenizer failed to load
CountOpenAITokens(text, tiktoken) ==
  IF tiktoken THEN EncodeLength(text) ELSE -1

\* countClaudeTokensApprox: Math.ceil(text.length / 4)
CountClaudeTokensApprox(text) == (Len(text) + 3) \div 4

\* countClaudeTokensWithAPI, after axios.post settled with outcome o
\* variant: a failed or empty reply leaves the count at -1
CountClaudeTokensWithAPIStrict(text, o) ==
  IF IsOk(o) /\ "tokens" \in DOMAIN o.ok THEN o.ok.tokens ELSE -1

CountClaudeTokensWithAPI(text, o) ==
  IF IsOk(o) /\ "tokens" \in DOMAIN o.ok THEN o.ok.tokens
  ELSE CountClaudeTokensApprox(text)

(***************************************************************************)
(* The engine state handled by the operators below: the fields of an      *)
(* McpServer instance, its output channel, the requests being handled,    *)
(* the microtask queue and the log of collaborator invocations.            *)
(***************************************************************************)
\* The field threw holds the message of the error an awaited collaborator or
\* calculateStats threw into the tool handler.  The fields before and alone
\* are not in the program: before is the value of settings.ignorePatterns
\* when the request was received, alone says that no other request was
\* being handled at any time this one was, reply is what the remote token
\* counter settled with.
NewRequest(msg) ==
  [msg |-> msg, pc |-> "run", original |-> Undef, paths |-> Undef,
   text |-> "", stats |-> Undef, pending |-> Undef, wrote |-> FALSE,
   threw |-> Undef, before |-> Undef, alone |-> TRUE, reply |-> Undef,
   outputFile |-> Undef]

\* the positions at which the handling of a request is over
Over == {"done", "rejected"}

\* handleJsonRpcMessage is entered for a message: it becomes the next request
Receive(st, message) ==
  LET busy == {j \in DOMAIN st.reqs : st.reqs[j].pc \notin Over} IN
  [st EXCEPT !.reqs =
     Append([j \in DOMAIN st.reqs |->
               IF j \in busy THEN [st.reqs[j] EXCEPT !.alone = FALSE]
               ELSE st.reqs[j]],
            [NewRequest(message) EXCEPT !.before = st.settings.ignorePatterns,
                                        !.alone = busy = {}])]

SetPc(st, r, pc) == [st EXCEPT !.reqs[r].pc = pc]

\* the continuation of request r is queued as a microtask
Enqueue(st, r, pc) ==
  [st EXCEPT !.reqs[r].pc = pc, !.microtasks = Append(@, r)]

\* console.log writes to standard output
ConsoleLog(st, text) == [st EXCEPT !.stdout = Append(@, LogLine(text))]

\* sendMessage: one serialized message and a newline
SendMessage(st, message) == [st EXCEPT !.stdout = Append(@, message)]

SendResult(st, r, id, result) == SendMessage(st, ResultMsg(r, id, result))

SendErrorResponse(st, r, id, code, message) ==
  SendMessage(st, ErrorMsg(r, id, code, message))

\* variant: an explicit initialize after the startup push is only
\* acknowledged, without the capability payload
SendInitializeResultAckOnly(st, r, id) ==
  IF Truthy(id) THEN SendResult(st, r, id, EmptyObject)
  ELSE SendResult([st EXCEPT !.nextId = @ + 1], r, Num(st.nextId),
                  InitializeResult)

\* sendInitializeResult: id || this.getNextId()
SendInitializeResult(st, r, id) ==
  IF Truthy(id) THEN SendResult(st, r, id, InitializeResult)
  ELSE SendResult([st EXCEPT !.nextId = @ + 1], r, Num(st.nextId),
                  InitializeResult)

\* a collaborator is invoked on behalf of request r
Invoke(st, r, fn, args) ==
  [st EXCEPT !.calls = Append(@, [req |-> r, fn |-> fn, args |-> args])]

\* an async handler's promise is rejected; handleToolsCall, awaiting it,
\* resumes in its catch block one microtask later
Throw(st, r, e) ==
  Enqueue([st EXCEPT !.reqs[r].pending = Fail(e)], r, "tc")

\* an async handler returns; handleToolsCall resumes one microtask later
Return(st, r, v) ==
  Enqueue([st EXCEPT !.reqs[r].pending = Ok(v)], r, "tc")

(***************************************************************************)
(* Tool handlers, up to their first await.                                 *)
(***************************************************************************)
\* destructuring an input that is undefined or null throws a TypeError
CannotDestructure(input) == IsUndef(input) \/ IsNull(input)

TypeErrorText == <<"Cannot destructure property of 'input'">>

\* calculateStats(text) up to its await: the character count and the first
\* token count are computed at once; the second one waits for the remote
\* API when a credential is configured.
WithStats(st, r, text) ==
  LET partial == [characterCount |-> Len(text),
                  openAiTokens |-> CountOpenAITokens(text, st.tiktoken),
                  claudeTokens |-> -1]
      s1 == [st EXCEPT !.reqs[r].text = text, !.reqs[r].stats = partial]
  IN IF Truthy(st.settings.anthropicApiKey)
     THEN SetPc(Invoke(s1, r, "tokenize", <<Str(text), st.settings.anthropicApiKey>>),
                r, "api")
     ELSE Enqueue([s1 EXCEPT !.reqs[r].stats.claudeTokens =
                                CountClaudeTokensApprox(text)], r, "stats")

\* text.length of undefined
LengthOfUndefined == <<"Cannot read properties of undefined (reading 'length')">>

\* calculateStats(text) for what a collaborator resolved with: reading the
\* length of undefined or null throws, the promise of calculateStats
\* rejects and the handler awaiting it resumes one microtask later
CalculateStats(st, r, text) ==
  IF IsStr(text) THEN WithStats(st, r, text.str)
  ELSE Enqueue([st EXCEPT !.reqs[r].threw = Fail(LengthOfUndefined)], r, "csfail")

\* variant: the saved patterns are never written back
RestoreIgnorePatternsSkipped(st, r) == st

\* the finally block of handleGenerateMarkdown
RestoreIgnorePatterns(st, r) ==
  LET input == st.reqs[r].msg.params.input IN
  IF Truthy(input.ignorePatterns) /\ Truthy(st.reqs[r].original)
  THEN [st EXCEPT !.settings.ignorePatterns = st.reqs[r].original,
                  !.reqs[r].wrote = TRUE]
  ELSE st

\* variant: the configured patterns are saved but the override is not
\* installed
InstallOverrideSavesOnly(st, r, input) ==
  IF Truthy(input.ignorePatterns)
  THEN [st EXCEPT !.reqs[r].original = st.settings.ignorePatterns,
                  !.reqs[r].wrote = TRUE]
  ELSE st

\* if (ignorePatterns): the shared settings are saved and overwritten
InstallOverride(st, r, input) ==
  IF Truthy(input.ignorePatterns)
  THEN [st EXCEPT !.reqs[r].original = st.settings.ignorePatterns,
                  !.settings.ignorePatterns = input.ignorePatterns,
                  !.reqs[r].wrote = TRUE]
  ELSE st

\* variant: the override is installed before folderPath is checked
HandleGenerateMarkdownInstallsFirst(st, r, input) ==
  IF CannotDestructure(input) THEN Throw(st, r, TypeErrorText)
  ELSE
    LET s1 == InstallOverride(st, r, input)
    IN IF ~Truthy(input.folderPath) THEN Throw(s1, r, <<"folderPath is required">>)
       ELSE IF ~Truthy(input.selectedPaths)
       THEN SetPc(Invoke(s1, r, "getDirectoryStructure",
                         <<input.folderPath, s1.settings.ignorePatterns>>),
                  r, "scan")
       ELSE SetPc(Invoke([s1 EXCEPT !.reqs[r].paths = input.selectedPaths], r,
                         "generateMarkdownContent",
                         <<input.folderPath, input.selectedPaths>>),
                  r, "gen")

HandleGenerateMarkdown(st, r, input) ==
  IF CannotDestructure(input) THEN Throw(st, r, TypeErrorText)
  ELSE IF ~Truthy(input.folderPath) THEN Throw(st, r, <<"folderPath is required">>)
  ELSE
    LET s1 == InstallOverride(st, r, input)
    IN IF ~Truthy(input.selectedPaths)
       THEN SetPc(Invoke(s1, r, "getDirectoryStructure",
                         <<input.folderPath, s1.settings.ignorePatterns>>),
                  r, "scan")
       ELSE SetPc(Invoke([s1 EXCEPT !.reqs[r].paths = input.selectedPaths], r,
                         "generateMarkdownContent",
                         <<input.folderPath, input.selectedPaths>>),
                  r, "gen")

HandleCountTokens(st, r, input) ==
  IF CannotDestructure(input) THEN Throw(st, r, TypeErrorText)
  ELSE IF ~Truthy(input.text) THEN Throw(st, r, <<"text is required">>)
  ELSE CalculateStats(st, r, input.text)

\* variant: the override is installed in the shared settings, as
\* generate_markdown does
HandleGetDirectoryStructureInstalls(st, r, input) ==
  IF CannotDestructure(input) THEN Throw(st, r, TypeErrorText)
  ELSE IF ~Truthy(input.folderPath) THEN Throw(st, r, <<"folderPath is required">>)
  ELSE
    LET s1 == InstallOverride(st, r, input)
    IN SetPc(Invoke(s1, r, "getDirectoryStructure",
                    <<input.folderPath, s1.settings.ignorePatterns>>),
             r, "scan")

HandleGetDirectoryStructure(st, r, input) ==
  IF CannotDestructure(input) THEN Throw(st, r, TypeErrorText)
  ELSE IF ~Truthy(input.folderPath) THEN Throw(st, r, <<"folderPath is required">>)
  ELSE SetPc(Invoke(st, r, "getDirectoryStructure",
                    <<input.folderPath,
                      OrElse(input.ignorePatterns, st.settings.ignorePatterns)>>),
             r, "scan")

\* variant: no default is applied
DefaultIgnored(v, d) == v

\* a destructuring default applies when the property is undefined
Default(v, d) == IF IsUndef(v) THEN d ELSE v

\* repomix-integration.js: the temporary output file of a packaging run is
\* named after the kind of run and Date.now()
OutputFile(prefix, now) == <<prefix, now>>

\* processRemoteRepository and processLocalRepositoryWithSecurity up to
\* their await of runRepoMixCommand: outputFile is chosen
RunRepoMix(st, r, prefix) ==
  [st EXCEPT !.reqs[r].outputFile = OutputFile(prefix, st.now)]

HandlePackRemoteRepository(st, r, input) ==
  IF ~st.repoMixIntegration
  THEN Throw(st, r, <<"RepoMix integration not initialized">>)
  ELSE IF CannotDestructure(input) THEN Throw(st, r, TypeErrorText)
  ELSE IF ~Truthy(input.repoUrl) THEN Throw(st, r, <<"Missing repoUrl parameter">>)
  ELSE SetPc(Invoke(RunRepoMix(ConsoleLog(st, "Processing remote repository:"),
                               r, "repo"), r,
                    "processRemoteRepository",
                    <<input.repoUrl,
                      [securityCheck |-> Default(input.securityCheck, Bool(FALSE)),
                       style |-> Default(input.style, Str("markdown"))]>>),
             r, "remote")

HandleProcessWithSecurity(st, r, input) ==
  IF ~st.repoMixIntegration
  THEN Throw(st, r, <<"RepoMix integration not initialized">>)
  ELSE IF CannotDestructure(input) THEN Throw(st, r, TypeErrorText)
  ELSE IF ~Truthy(input.folderPath) THEN Throw(st, r, <<"Missing folderPath parameter">>)
  ELSE SetPc(Invoke(RunRepoMix(ConsoleLog(st,
                                          "Processing folder with security checks:"),
                               r, "local"), r,
                    "processLocalRepositoryWithSecurity",
                    <<input.folderPath,
                      [style |-> Default(input.style, Str("markdown"))]>>),
             r, "local")

(***************************************************************************)
(* Method handlers.                                                        *)
(***************************************************************************)
\* variant: the version is checked only when the field is present
ValidVersionWhenPresent(message) ==
  ~Truthy(Get(message, "jsonrpc")) \/ Get(message, "jsonrpc") = Str("2.0")

\* message.jsonrpc !== "2.0" is an invalid request
ValidVersion(message) == Get(message, "jsonrpc") = Str("2.0")

\* variant: only an absent name counts as missing
NameMissingStrict(name) == IsUndef(name)

\* !name: the name is absent, or falsy as the empty string is
NameMissing(name) == ~Truthy(name)

\* the text a template literal gives for a name
Text(v) == IF IsStr(v) THEN v.str ELSE "undefined"

\* variant: the packaging tools are listed only when the packaging
\* collaborator was given
HandleToolsListAvailableOnly(st, r, message) ==
  SendResult(st, r, message.id,
             [tools |-> IF st.repoMixIntegration THEN ToolDescriptors
                        ELSE SelectSeq(ToolDescriptors,
                                       LAMBDA t : t.required # <<"repoUrl">>)])

HandleToolsList(st, r, message) ==
  SendResult(st, r, message.id, [tools |-> ToolDescriptors])

HandleResourcesList(st, r, message) ==
  SendResult(st, r, message.id, [resources |-> ResourceDescriptors])

\* variant: the switch has no default branch, so the undefined result of
\* an unknown tool is sent as a success
UnknownToolReturnsUndefined(st, r, message, name) == Return(st, r, Undef)

\* the default branch of the switch of handleToolsCall
UnknownTool(st, r, message, name) ==
  Enqueue(SendErrorResponse(st, r, message.id, -32601,
                            <<"Unknown tool: ", Text(name)>>), r, "jr")

\* handleToolsCall up to its first await.  When it returns without awaiting
\* (missing or unknown name) handleJsonRpcMessage, which awaits it, resumes
\* one microtask later.
HandleToolsCall(st, r, message) ==
  LET params == OrElse(message.params, EmptyObject)
      name == Get(params, "name")
      input == Get(params, "input")
  IN IF NameMissing(name)
     THEN Enqueue(SendErrorResponse(st, r, message.id, -32602,
                                    <<"Missing tool name">>), r, "jr")
     ELSE CASE name = Str("generate_markdown") -> HandleGenerateMarkdown(st, r, input)
            [] name = Str("pack_remote_repository") -> HandlePackRemoteRepository(st, r, input)
            [] name = Str("process_with_security") -> HandleProcessWithSecurity(st, r, input)
            [] name = Str("count_tokens") -> HandleCountTokens(st, r, input)
            [] name = Str("get_directory_structure") -> HandleGetDirectoryStructure(st, r, input)
            [] OTHER -> UnknownTool(st, r, message, name)

\* variant: the copy is returned as it is
RedactedCopyLeaks(settings) == settings

\* { ...this.settings } with a truthy anthropicApiKey replaced
RedactedCopy(settings) ==
  IF Truthy(settings.anthropicApiKey)
  THEN [settings EXCEPT !.anthropicApiKey = Str(Redacted)]
  ELSE settings

\* handleResourcesGet has no await: it runs to its end at once
HandleResourcesGet(st, r, message) ==
  LET params == OrElse(message.params, EmptyObject)
      name == Get(params, "name")
  IN IF NameMissing(name)
     THEN SendErrorResponse(st, r, message.id, -32602, <<"Missing resource name">>)
     ELSE IF name = Str("settings")
     THEN SendResult(st, r, message.id, [content |-> RedactedCopy(st.settings)])
     ELSE SendErrorResponse(st, r, message.id, -32602,
                            <<"Unknown resource: ", Text(name)>>)

\* variant: shutdown also abandons the requests that are being handled
HandleShutdownAbandons(st, r, message) ==
  LET s1 == SendResult(st, r, message.id, EmptyObject) IN
  [s1 EXCEPT !.microtasks = <<>>,
             !.reqs = [j \in DOMAIN s1.reqs |->
                         [s1.reqs[j] EXCEPT !.pc = "done"]]]

\* case "shutdown": an empty result, nothing else
HandleShutdown(st, r, message) ==
  SendResult(st, r, message.id, EmptyObject)

\* handleJsonRpcMessage(message) up to its first await, for the message that
\* becomes request number Len(st.reqs) + 1.  Reading message.jsonrpc of null
\* throws a TypeError outside the try block: the returned promise rejects.
\* The catch block of the switch (code -32000) is not reached: the handlers
\* called here catch their own failures or cannot throw.
HandleJsonRpcMessage(st, message) ==
  LET r == Len(st.reqs) + 1
      s0 == ConsoleLog(Receive(st, message), "Received message:")
      method == Get(message, "method")
  IN IF IsNull(message) THEN SetPc(s0, r, "rejected")
     ELSE IF ~ValidVersion(message)
     THEN SetPc(SendErrorResponse(s0, r, Get(message, "id"), -32600,
                                  <<"Invalid Request">>), r, "done")
     ELSE IF ~Truthy(method) THEN SetPc(s0, r, "done")
     ELSE CASE method = Str("initialize") ->
                 SetPc(SendInitializeResult(s0, r, message.id), r, "done")
            [] method = Str("shutdown") ->
                 SetPc(HandleShutdown(s0, r, message), r, "done")
            [] method = Str("tools/list") ->
                 SetPc(HandleToolsList(s0, r, message), r, "done")
            [] method = Str("tools/call") -> HandleToolsCall(s0, r, message)
            [] method = Str("resources/list") ->
                 SetPc(HandleResourcesList(s0, r, message), r, "done")
            [] method = Str("resources/get") ->
                 Enqueue(HandleResourcesGet(s0, r, message), r, "jr")
            [] OTHER ->
                 SetPc(SendErrorResponse(s0, r, message.id, -32601,
                                         <<"Method not found: ", Text(method)>>),
                       r, "done")

(***************************************************************************)
(* Continuations.                                                          *)
(***************************************************************************)
\* the tool a tools/call request named
ToolOf(req) == req.msg.params.name.str

\* what the tool handler of request r returns once its stats are complete
HandlerResult(req) ==
  CASE ToolOf(req) = "generate_markdown" ->
         [success |-> TRUE, markdownContent |-> req.text, stats |-> req.stats]
    [] ToolOf(req) = "count_tokens" ->
         [success |-> TRUE, stats |-> req.stats]
    [] OTHER -> [content |-> req.text, stats |-> req.stats]

\* variant: the failure is left to the catch block of handleJsonRpcMessage
ToolCallFailedOutside(st, r, e) ==
  Enqueue(SendErrorResponse(st, r, st.reqs[r].msg.id, -32000,
                            <<"Error handling method ", "tools/call", ": ">> \o e),
          r, "jr")

\* the catch block of handleToolsCall
ToolCallFailed(st, r, e) ==
  Enqueue(SendErrorResponse(st, r, st.reqs[r].msg.id, -32603,
                            <<"Error handling tool call: ">> \o e),
          r, "jr")

\* The microtask of request r runs: the async function that was waiting at
\* st.reqs[r].pc resumes and runs up to its next await or its end.
Resume(st, r) ==
  LET req == st.reqs[r] IN
  CASE req.pc = "cs" ->
         \* calculateStats returns; the tool handler resumes next
         Enqueue(st, r, "stats")
    [] req.pc = "csfail" ->
         \* the await of calculateStats throws in the tool handler
         CASE ToolOf(req) = "generate_markdown" ->
                Throw(RestoreIgnorePatterns(st, r), r, req.threw.fail)
           [] ToolOf(req) = "pack_remote_repository" ->
                Throw(st, r, <<"Error processing remote repository: ">>
                               \o req.threw.fail)
           [] ToolOf(req) = "process_with_security" ->
                Throw(st, r, <<"Error processing with security: ">>
                               \o req.threw.fail)
           [] OTHER -> Throw(st, r, req.threw.fail)
    [] req.pc = "stats" ->
         IF ToolOf(req) = "generate_markdown"
         THEN Return(RestoreIgnorePatterns(st, r), r, HandlerResult(req))
         ELSE Return(st, r, HandlerResult(req))
    [] req.pc = "tc" ->
         \* handleToolsCall: sendResult, or the catch block
         IF IsOk(req.pending)
         THEN Enqueue(SendResult(st, r, req.msg.id, [result |-> req.pending.ok]),
                      r, "jr")
         ELSE ToolCallFailed(st, r, req.pending.fail)
    [] req.pc = "jr" ->
         \* handleJsonRpcMessage leaves the switch: its promise resolves
         SetPc(st, r, "done")
    [] OTHER -> st

\* variant: after a failed scan the assembler is called with no paths
ScanFailedGoesOn(st, r, e) ==
  SetPc(Invoke([st EXCEPT !.reqs[r].paths = Arr(<<>>)], r,
               "generateMarkdownContent",
               <<st.reqs[r].msg.params.input.folderPath, Arr(<<>>)>>),
        r, "gen")

\* the await of getDirectoryStructure throws in handleGenerateMarkdown: the
\* finally block runs and the handler's promise is rejected
ScanFailed(st, r, e) == Throw(RestoreIgnorePatterns(st, r), r, e)

\* The promise request r is waiting for settles with outcome o, and the
\* async function awaiting it resumes (no other microtask is queued).
Settle(s, r, o) ==
  LET req == s.reqs[r]
      input == req.msg.params.input
      st == IF IsOk(o) \/ req.pc = "api" THEN s
            ELSE [s EXCEPT !.reqs[r].threw = o]
  IN
  CASE req.pc = "scan" /\ ToolOf(req) = "generate_markdown" ->
         IF IsOk(o)
         THEN LET paths == CollectFilePaths(o.ok) IN
              SetPc(Invoke([st EXCEPT !.reqs[r].paths = Arr(paths)], r,
                           "generateMarkdownContent",
                           <<input.folderPath, Arr(paths)>>),
                    r, "gen")
         ELSE ScanFailed(st, r, o.fail)
    [] req.pc = "scan" /\ ToolOf(req) # "generate_markdown" ->
         IF IsOk(o)
         THEN Return(st, r, [success |-> TRUE, directoryStructure |-> o.ok])
         ELSE Throw(st, r, o.fail)
    [] req.pc = "gen" ->
         IF IsOk(o) THEN CalculateStats(st, r, o.ok)
         ELSE Throw(RestoreIgnorePatterns(st, r), r, o.fail)
    [] req.pc = "remote" ->
         IF IsOk(o) THEN CalculateStats(st, r, o.ok)
         ELSE Throw(st, r, <<"Error processing remote repository: ">> \o o.fail)
    [] req.pc = "local" ->
         IF IsOk(o) THEN CalculateStats(st, r, o.ok)
         ELSE Throw(st, r, <<"Error processing with security: ">> \o o.fail)
    [] req.pc = "api" ->
         Enqueue([st EXCEPT !.reqs[r].stats.claudeTokens =
                              CountClaudeTokensWithAPI(req.text, o),
                            !.reqs[r].reply = o], r, "cs")
    [] OTHER -> st

(***************************************************************************)
(* The framer.                                                             *)
(***************************************************************************)
\* variant: a parse failure discards whatever is still buffered
HandleLineResetsBuffer(st, line) ==
  IF Trim(line) = <<>> THEN st
  ELSE IF JSONParse(line) = SyntaxError THEN [st EXCEPT !.messageBuffer = <<>>]
  ELSE HandleJsonRpcMessage(st, JSONParse(line))

\* the body of the while loop for one extracted line: a blank line is
\* skipped, a SyntaxError of JSON.parse is caught and logged to stderr
HandleLine(st, line) ==
  IF Trim(line) = <<>> THEN st
  ELSE IF JSONParse(line) = SyntaxError THEN st
  ELSE HandleJsonRpcMessage(st, JSONParse(line))

RECURSIVE ProcessLines(_)
\* the while loop of handleStdinData
ProcessLines(st) ==
  LET newlineIndex == IndexOf(st.messageBuffer, NL) IN
  IF newlineIndex = 0 THEN st
  ELSE LET line == SubSeq(st.messageBuffer, 1, newlineIndex - 1)
           s1 == [st EXCEPT !.messageBuffer =
                              SubSeq(@, newlineIndex + 1, Len(@))]
       IN ProcessLines(HandleLine(s1, line))

\* a handleStdinData whose loop is suspended by the first line it hands over
StdinDataAwaitsHandler(st, data) ==
  LET s0 == [st EXCEPT !.messageBuffer = @ \o DataToString(data)]
      newlineIndex == IndexOf(s0.messageBuffer, NL)
  IN IF newlineIndex = 0 THEN s0
     ELSE HandleLine([s0 EXCEPT !.messageBuffer =
                                  SubSeq(@, newlineIndex + 1, Len(@))],
                     SubSeq(s0.messageBuffer, 1, newlineIndex - 1))

\* handleStdinData(data)
StdinData(st, data) ==
  ProcessLines([st EXCEPT !.messageBuffer = @ \o DataToString(data)])

(***************************************************************************)
(* State.                                                                  *)
(***************************************************************************)
VARIABLES
  stdin,               \* characters the client wrote that were not delivered yet
  received,            \* every character delivered to handleStdinData so far
  messageBuffer,       \* this.messageBuffer
  nextId,              \* this.nextId
  settings,            \* this.settings, shared with the application
  repoMixIntegration,  \* whether this.repoMixIntegration was given
  tiktoken,            \* whether js-tiktoken could be loaded
  listening,           \* start() registered the "data" listener
  stopped,             \* stop() was called
  stdout,              \* the lines written to process.stdout, in order
  reqs,                \* the messages handed to handleJsonRpcMessage, in order
  microtasks,          \* requests whose continuation is queued, in order
  calls,               \* the collaborator invocations, in order
  disk,                \* the trees and documents the collaborators can find
  heap,                \* main.js: the settings objects, by reference
  userSettings,        \* main.js: the object userSettings refers to
  apiServer,           \* main.js: null or the ApiServer instance
  mcpServer,           \* main.js: null or the McpServer instance
  tasks,               \* main.js: the pending file writes and server starts/stops
  http,                \* the replies of the REST API, in order
  ops                  \* how many user operations were performed

vars ==
  <<stdin, received, messageBuffer, nextId, settings, repoMixIntegration,
    tiktoken, listening, stopped, stdout, reqs, microtasks, calls, disk,
    heap, userSettings, apiServer, mcpServer, tasks, http, ops>>

\* the state of the desktop application (main.js, api-server.js)
appVars == <<heap, userSettings, apiServer, mcpServer, tasks, http, ops>>

\* the state of the protocol engine
engineVars ==
  <<stdin, received, messageBuffer, nextId, settings, repoMixIntegration,
    tiktoken, listening, stopped, stdout, reqs, microtasks, calls, disk>>

\* the part of the state the engine operators work on
Engine ==
  [messageBuffer |-> messageBuffer, nextId |-> nextId, settings |-> settings,
   repoMixIntegration |-> repoMixIntegration, tiktoken |-> tiktoken,
   stdout |-> stdout, reqs |-> reqs, microtasks |-> microtasks, calls |-> calls,
   now |-> disk.now]

Becomes(st) ==
  /\ messageBuffer' = st.messageBuffer
  /\ nextId' = st.nextId
  /\ settings' = st.settings
  /\ stdout' = st.stdout
  /\ reqs' = st.reqs
  /\ microtasks' = st.microtasks
  /\ calls' = st.calls
  /\ UNCHANGED <<repoMixIntegration, tiktoken, disk>>
  /\ UNCHANGED appVars

(***************************************************************************)
(* What the client writes: up to MaxLines newline-terminated lines drawn   *)
(* from a set of lines, then possibly the start of a further line.         *)
(***************************************************************************)
BlankLines == {<<>>, <<SP>>}

\* not JSON: garbage, a JSON text cut short, a JSON text followed by garbage
MalformedLines ==
  {<<JUNK>>,
   <<LBrace(Msg(Str("2.0"), Num(7), Str("tools/list"), Undef))>>,
   Stringify(Msg(Str("2.0"), Num(7), Str("tools/list"), Undef)) \o <<JUNK>>}

RECURSIVE StreamsOfLines(_, _)
StreamsOfLines(lines, n) ==
  IF n = 0 THEN {<<>>}
  ELSE {l \o <<NL>> \o s : l \in lines, s \in StreamsOfLines(lines, n - 1)}

Streams(lines, tails) ==
  {s \o t : s \in UNION {StreamsOfLines(lines, n) : n \in 0..MaxLines},
            t \in tails}

\* The state after construction (mcp-server.js constructor) with the
\* client's input still to come.
\* main.js: the defaults of userSettings
DefaultSettings ==
  [ignorePatterns |-> ConfiguredPatterns,
   anthropicApiKey |-> Str(""),
   apiServerEnabled |-> Bool(FALSE),
   apiServerPort |-> Num(69420),
   mcpServerEnabled |-> Bool(FALSE)]

\* main.js after the module was loaded: default settings, no server
MainLoaded ==
  /\ heap = <<DefaultSettings>>
  /\ userSettings = 1
  /\ apiServer = Null
  /\ mcpServer = Null
  /\ tasks = <<[op |-> "ready"]>>
  /\ http = <<>>
  /\ ops = 0

InitOn(lines, tails, keys, repoMix, tokenizers, trees, contents) ==
  /\ MainLoaded
  /\ disk = [trees |-> trees, contents |-> contents,
             now |-> 0, tmp |-> {}, runs |-> {}]
  /\ stdin \in Streams(lines, tails)
  /\ received = <<>>
  /\ messageBuffer = <<>>
  /\ nextId = 1
  /\ settings \in {[ignorePatterns |-> ConfiguredPatterns,
                    anthropicApiKey |-> Str(k)] : k \in keys}
  /\ repoMixIntegration \in repoMix
  /\ tiktoken \in tokenizers
  /\ listening = FALSE
  /\ stopped = FALSE
  /\ stdout = <<>>
  /\ reqs = <<>>
  /\ microtasks = <<>>
  /\ calls = <<>>

InitWith(lines, tails, keys, repoMix, tokenizers) ==
  InitOn(lines, tails, keys, repoMix, tokenizers, Trees,
         {Str(c) : c \in Contents})

(***************************************************************************)
(* Actions.                                                                *)
(***************************************************************************)
\* what the promise a request is waiting for can settle with
Outcomes(pc) ==
  CASE pc = "scan" -> {Ok(t) : t \in disk.trees} \cup {Fail(<<"ENOENT">>)}
    [] pc = "gen" -> {Ok(c) : c \in disk.contents} \cup {Fail(<<"EACCES">>)}
    [] pc = "remote" -> {Ok(c) : c \in disk.contents}
                          \cup {Fail(<<"clone failed">>)}
    [] pc = "local" -> {Ok(c) : c \in disk.contents}
                         \cup {Fail(<<"repomix failed">>)}
    [] pc = "api" -> {Ok([tokens |-> 2]), Ok(EmptyObject), Fail(<<"401">>)}
    [] OTHER -> {}

\* variant: start() only registers the listener and logs
StartSilent ==
  /\ ~listening
  /\ listening' = TRUE
  /\ Becomes(ConsoleLog(Engine,
                        "MCP server started and ready to receive messages"))
  /\ UNCHANGED <<stdin, received, stopped>>

\* start(): register the listener, push the initialize result, log
Start ==
  /\ ~listening
  /\ listening' = TRUE
  /\ Becomes(ConsoleLog(SendInitializeResult(Engine, 0, Null),
                        "MCP server started and ready to receive messages"))
  /\ UNCHANGED <<stdin, received, stopped>>

\* a "data" event delivers the next n characters to handleStdinData; every
\* complete line is framed and dispatched before the event handler returns
HandleStdinData ==
  /\ listening
  /\ microtasks = <<>>
  /\ \E n \in 1..MaxChunk :
       /\ n <= Len(stdin)
       /\ LET data == SubSeq(stdin, 1, n) IN
          /\ stdin' = SubSeq(stdin, n + 1, Len(stdin))
          /\ received' = received \o data
          /\ Becomes(StdinData(Engine, data))
  /\ UNCHANGED <<listening, stopped>>

\* the event loop runs the oldest queued microtask
RunMicrotask ==
  /\ microtasks # <<>>
  /\ Becomes(Resume([Engine EXCEPT !.microtasks = Tail(@)], Head(microtasks)))
  /\ UNCHANGED <<stdin, received, listening, stopped>>

\* a collaborator's promise settles (file system, subprocess or network)
CollaboratorSettles ==
  /\ microtasks = <<>>
  /\ \E r \in DOMAIN reqs :
       /\ reqs[r].pc \in Waiting
       /\ \E o \in Outcomes(reqs[r].pc) : Becomes(Settle(Engine, r, o))
  /\ UNCHANGED <<stdin, received, listening, stopped>>

\* stop(): no child process is ever spawned, so only the log line
Stop ==
  /\ listening
  /\ ~stopped
  /\ microtasks = <<>>
  /\ stopped' = TRUE
  /\ Becomes(ConsoleLog(Engine, "MCP server stopped"))
  /\ UNCHANGED <<stdin, received, listening>>

(***************************************************************************)
(* repomix-integration.js: a packaging run step by step. disk.now is the   *)
(* clock, disk.tmp the files of the temporary directory and disk.runs the  *)
(* runs whose subprocess has exited.                                       *)
(***************************************************************************)
MaxClock == 1

\* only the disk changes
DiskBecomes(d) ==
  /\ disk' = d
  /\ UNCHANGED <<stdin, received, messageBuffer, nextId, settings,
                 repoMixIntegration, tiktoken, listening, stopped, stdout,
                 reqs, microtasks, calls>>
  /\ UNCHANGED appVars

\* the requests awaiting processRemoteRepository or
\* processLocalRepositoryWithSecurity
Packaging == {r \in DOMAIN reqs : reqs[r].pc \in {"remote", "local"}}

Exited == {run.req : run \in disk.runs}

RunOf(r) == CHOOSE run \in disk.runs : run.req = r

\* the files of the temporary directory named as the output file of r
FilesOf(r) == {f \in disk.tmp : f.name = reqs[r].outputFile}

\* the document the packaging tool writes for request r names what it packed
Packed(r) ==
  LET input == reqs[r].msg.params.input IN
  IF reqs[r].pc = "remote" THEN input.repoUrl ELSE input.folderPath

\* run r moves on
Moves(r, run) ==
  [disk EXCEPT !.runs = (@ \ {RunOf(r)}) \cup {run}]

\* Date.now() advances
ClockTicks ==
  /\ microtasks = <<>>
  /\ disk.now < MaxClock
  /\ DiskBecomes([disk EXCEPT !.now = @ + 1])

\* the subprocess of run r exits with code 0 after writing its output file
RepoMixExits ==
  /\ microtasks = <<>>
  /\ \E r \in Packaging \ Exited :
       DiskBecomes([disk EXCEPT
         !.tmp = (@ \ FilesOf(r))
                   \cup {[name |-> reqs[r].outputFile, text |-> Packed(r),
                          by |-> r]},
         !.runs = @ \cup {[req |-> r, phase |-> "access", text |-> Undef,
                           from |-> 0, removed |-> 0]}])

\* the subprocess of run r exits with another code
RepoMixFails ==
  /\ microtasks = <<>>
  /\ \E r \in Packaging \ Exited :
       Becomes(Settle(Engine, r, Fail(<<"RepoMix exited with code 1">>)))
  /\ UNCHANGED <<stdin, received, listening, stopped>>

\* fs.access(outputFile) settles
FileAccessed ==
  /\ microtasks = <<>>
  /\ \E r \in Packaging \cap Exited :
       /\ RunOf(r).phase = "access"
       /\ DiskBecomes(Moves(r, [RunOf(r) EXCEPT !.phase =
                                  IF FilesOf(r) # {} THEN "read" ELSE "missing"]))

\* fs.readFile(outputFile) settles
FileRead ==
  /\ microtasks = <<>>
  /\ \E r \in Packaging \cap Exited :
       /\ RunOf(r).phase = "read"
       /\ DiskBecomes(Moves(r,
            IF FilesOf(r) = {} THEN [RunOf(r) EXCEPT !.phase = "enoent"]
            ELSE LET f == CHOOSE f \in FilesOf(r) : TRUE IN
                 [RunOf(r) EXCEPT !.phase = "unlink", !.text = f.text,
                                  !.from = f.by]))

\* fs.unlink(outputFile) settles; its failure is only logged
FileUnlinked ==
  /\ microtasks = <<>>
  /\ \E r \in Packaging \cap Exited :
       /\ RunOf(r).phase = "unlink"
       /\ DiskBecomes([Moves(r, [RunOf(r) EXCEPT
                                  !.phase = "return",
                                  !.removed = IF FilesOf(r) = {} THEN 0
                                              ELSE (CHOOSE f \in FilesOf(r) : TRUE).by])
                       EXCEPT !.tmp = @ \ FilesOf(r)])

\* what the promise of run r settles with
Outcome(run) ==
  CASE run.phase = "return" -> Ok(run.text)
    [] run.phase = "missing" ->
         Fail(<<"Output file not created. RepoMix may have failed silently.">>)
    [] run.phase = "enoent" -> Fail(<<"ENOENT">>)

\* the promise of run r settles
PackagingSettles ==
  /\ microtasks = <<>>
  /\ \E r \in Packaging \cap Exited :
       /\ RunOf(r).phase \in {"return", "missing", "enoent"}
       /\ Becomes(Settle(Engine, r, Outcome(RunOf(r))))
  /\ UNCHANGED <<stdin, received, listening, stopped>>

NextTempFiles ==
  \/ Start
  \/ HandleStdinData
  \/ RunMicrotask
  \/ ClockTicks
  \/ RepoMixExits
  \/ RepoMixFails
  \/ FileAccessed
  \/ FileRead
  \/ FileUnlinked
  \/ PackagingSettles

Next ==
  \/ Start
  \/ HandleStdinData
  \/ RunMicrotask
  \/ CollaboratorSettles
  \/ Stop

(***************************************************************************)
(* The desktop application (main.js).  Settings objects live on a heap and *)
(* are held by reference: userSettings, the settings of a server instance  *)
(* and the argument of a pending save can be the same object.              *)
(***************************************************************************)
MaxOps == 2

\* the part of the state the application operators work on
App ==
  [heap |-> heap, userSettings |-> userSettings, apiServer |-> apiServer,
   mcpServer |-> mcpServer, tasks |-> tasks, http |-> http]

AppBecomes(ap) ==
  /\ heap' = ap.heap
  /\ userSettings' = ap.userSettings
  /\ apiServer' = ap.apiServer
  /\ mcpServer' = ap.mcpServer
  /\ tasks' = ap.tasks
  /\ http' = ap.http
  /\ UNCHANGED engineVars

\* a new object; its reference is the new length of the heap
Alloc(ap, obj) == [ap EXCEPT !.heap = Append(@, obj)]

\* a promise that settles in a later turn of the event loop
Later(ap, task) == [ap EXCEPT !.tasks = Append(@, task)]

\* saveSettings(settings) up to its await of writeFile
SaveSettings(ap, ref, then) ==
  Later(ap, [op |-> "write", ref |-> ref, then |-> then])

\* net.Server.listen accepts the ports 0..65535
ValidPort(port) == IsNum(port) /\ port.num \in 0..65535

\* new ApiServer(markdownGeneratorFunctions, settings): this.server is null
\* and this.port is settings.apiServerPort || 69420
NewApiServer(ap, ref) ==
  [server |-> "none",
   port |-> OrElse(ap.heap[ref].apiServerPort, Num(69420)),
   settings |-> ref]

\* ApiServer.start() up to the settlement of its promise: listen throws at
\* once for a port out of range, leaving this.server null
ApiServerStart(ap) ==
  Later([ap EXCEPT !.apiServer.server =
                      IF ValidPort(ap.apiServer.port) THEN "binding" ELSE "none"],
        [op |-> "api-start"])

\* startApiServer()
StartApiServer(ap) ==
  IF Truthy(ap.heap[ap.userSettings].apiServerEnabled) /\ ap.apiServer = Null
  THEN LET s1 == [ap EXCEPT !.apiServer = NewApiServer(ap, ap.userSettings)]
           s2 == [s1 EXCEPT !.apiServer.port =
                               ap.heap[ap.userSettings].apiServerPort]
       IN ApiServerStart(s2)
  ELSE ap

\* stopApiServer(): ApiServer.stop() resolves at once when this.server is
\* null, and the callback clears the instance in the same turn; otherwise
\* close() is called, which fails for a server that is not running (its
\* listen failed or it is closing already) and then changes nothing
StopApiServer(ap) ==
  IF ap.apiServer = Null THEN ap
  ELSE IF ap.apiServer.server = "none" THEN [ap EXCEPT !.apiServer = Null]
  ELSE IF ap.apiServer.server \in {"binding", "listening"}
  THEN Later([ap EXCEPT !.apiServer.server = "closing",
                        !.tasks = SelectSeq(@, LAMBDA t : t.op # "api-start")],
             [op |-> "api-stop"])
  ELSE ap

\* startMcpServer(): McpServer.start() resolves at once
StartMcpServer(ap) ==
  IF Truthy(ap.heap[ap.userSettings].mcpServerEnabled) /\ ap.mcpServer = Null
  THEN [ap EXCEPT !.mcpServer = [settings |-> ap.userSettings]]
  ELSE ap

\* stopMcpServer(): McpServer.stop() resolves at once and the callback
\* clears the instance in the same turn
StopMcpServer(ap) ==
  IF ap.mcpServer # Null THEN [ap EXCEPT !.mcpServer = Null] ELSE ap

\* settings the Settings tab can send and the settings file can hold
SettingsInputs ==
  {[ignorePatterns |-> ConfiguredPatterns,
    anthropicApiKey |-> Str(k),
    apiServerEnabled |-> Bool(a),
    apiServerPort |-> Num(p),
    mcpServerEnabled |-> Bool(m)] :
     k \in {"sk-ant-1"}, a \in BOOLEAN, p \in {3000}, m \in BOOLEAN}

\* the callback of app.whenReady(): loadSettings() makes a new object of
\* the defaults and the saved settings, then the enabled servers start
WhenReady(ap, saved) ==
  LET s1 == Alloc(ap, saved)
      s2 == [s1 EXCEPT !.userSettings = Len(s1.heap)]
  IN StartMcpServer(StartApiServer(s2))

\* the "save-settings" handler after its await of saveSettings(settings)
SaveSettingsContinues(ap, ref) ==
  LET new == ap.heap[ref]
      cur == ap.heap[ap.userSettings]
      s1 == IF /\ ap.apiServer # Null
               /\ Truthy(new.apiServerEnabled)
               /\ new.apiServerPort # cur.apiServerPort
            THEN [ap EXCEPT !.apiServer.port = new.apiServerPort]
            ELSE ap
      s2 == IF new.apiServerEnabled # cur.apiServerEnabled
            THEN IF Truthy(new.apiServerEnabled) THEN StartApiServer(s1)
                 ELSE StopApiServer(s1)
            ELSE s1
  IN IF new.mcpServerEnabled # cur.mcpServerEnabled
     THEN IF Truthy(new.mcpServerEnabled) THEN StartMcpServer(s2)
          ELSE StopMcpServer(s2)
     ELSE s2

(***************************************************************************)
(* The REST API (api-server.js): the two settings routes.                  *)
(***************************************************************************)
MaxHttp == 2

\* res.status(status).json(body)
Reply(ap, route, status, body) ==
  [ap EXCEPT !.http = Append(@, [route |-> route, status |-> status,
                                  body |-> body])]

\* variant: the copy is returned with every property
SafeSettingsKept(live) == live

\* { ...this.settings } followed by delete safeSettings.anthropicApiKey
SafeSettings(live) ==
  [f \in DOMAIN live \ {"anthropicApiKey"} |-> live[f]]

\* GET /api/settings
GetSettings(ap) ==
  Reply(ap, "GET /api/settings", 200,
        [success |-> TRUE,
         settings |-> SafeSettings(ap.heap[ap.apiServer.settings])])

\* { ...a, ...b }
Spread(a, b) ==
  [f \in DOMAIN a \cup DOMAIN b |-> IF f \in DOMAIN b THEN b[f] ELSE a[f]]

\* POST /api/settings up to its await of saveSettings(updatedSettings);
\* body is req.body.settings
PostSettings(ap, body) ==
  IF ~Truthy(body)
  THEN Reply(ap, "POST /api/settings", 400,
             [error |-> "Settings object is required"])
  ELSE LET live == ap.heap[ap.apiServer.settings]
           updatedSettings ==
             [Spread(live, body) EXCEPT !.apiServerPort = live.apiServerPort]
           s1 == Alloc(ap, updatedSettings)
       IN SaveSettings(s1, Len(s1.heap), "POST /api/settings")

\* POST /api/settings after its await: this.settings is assigned on
\* success only
PostSettingsContinues(ap, ref, ok) ==
  IF ~ok
  THEN Reply(ap, "POST /api/settings", 500, [success |-> FALSE])
  ELSE Reply(IF ap.apiServer = Null THEN ap
             ELSE [ap EXCEPT !.apiServer.settings = ref],
             "POST /api/settings", 200, [success |-> TRUE])

\* what an ipcMain handler returns to the renderer
Returns(ap, channel, value) ==
  [ap EXCEPT !.http = Append(@, [route |-> channel, body |-> value])]

\* the handlers "start-api-server", "stop-api-server", "start-mcp-server"
\* and "stop-mcp-server" up to their await of saveSettings(userSettings)
StartStopInvoked(ap, channel) ==
  LET server == IF channel \in {"start-api-server", "stop-api-server"}
                THEN ap.apiServer ELSE ap.mcpServer
      flag == IF channel \in {"start-api-server", "stop-api-server"}
              THEN "apiServerEnabled" ELSE "mcpServerEnabled"
      starting == channel \in {"start-api-server", "start-mcp-server"}
  IN IF starting /\ server # Null
     THEN Returns(ap, channel, [success |-> FALSE, error |-> "already running"])
     ELSE IF ~starting /\ server = Null
     THEN Returns(ap, channel, [success |-> FALSE, error |-> "not running"])
     ELSE SaveSettings([ap EXCEPT !.heap[ap.userSettings][flag] = Bool(starting)],
                       ap.userSettings, channel)

\* the same handlers after their await, whatever saveSettings returned
StartStopContinues(ap, channel) ==
  LET s1 == CASE channel = "start-api-server" -> StartApiServer(ap)
              [] channel = "stop-api-server" -> StopApiServer(ap)
              [] channel = "start-mcp-server" -> StartMcpServer(ap)
              [] channel = "stop-mcp-server" -> StopMcpServer(ap)
  IN Returns(s1, channel, [success |-> TRUE])

\* the handler "get-api-server-status"
GetApiServerStatus(ap) ==
  [running |-> ap.apiServer # Null,
   enabled |-> ap.heap[ap.userSettings].apiServerEnabled,
   port |-> ap.heap[ap.userSettings].apiServerPort]

\* the channels of the four handlers
StartStopChannels ==
  {"start-api-server", "stop-api-server", "start-mcp-server", "stop-mcp-server"}

\* writeFile settled: saveSettings assigns userSettings on success, and the
\* function that awaited saveSettings goes on
Written(ap, task, ok) ==
  LET s1 == IF ok THEN [ap EXCEPT !.userSettings = task.ref] ELSE ap IN
  IF task.then = "save-settings" THEN SaveSettingsContinues(s1, task.ref)
  ELSE IF task.then = "POST /api/settings"
  THEN PostSettingsContinues(s1, task.ref, ok)
  ELSE IF task.then \in StartStopChannels
  THEN StartStopContinues(s1, task.then)
  ELSE s1

\* the server of the ApiServer instance is listening, or emitted an error
Listened(ap, ok) ==
  IF ap.apiServer # Null /\ ap.apiServer.server = "binding"
  THEN [ap EXCEPT !.apiServer.server = IF ok THEN "listening" ELSE "failed"]
  ELSE ap

\* the callback of close(): this.server = null, then the callback of
\* stopApiServer clears the instance
Closed(ap) == [ap EXCEPT !.apiServer = Null]

\* tasks without the one at position i
Without(seq, i) == SubSeq(seq, 1, i - 1) \o SubSeq(seq, i + 1, Len(seq))

Ready == \A i \in DOMAIN tasks : tasks[i].op # "ready"

\* a pending promise settles and its callback runs
TaskSettles ==
  /\ \E i \in DOMAIN tasks :
       LET task == tasks[i]
           ap == [App EXCEPT !.tasks = Without(tasks, i)]
       IN CASE task.op = "ready" ->
                 \E saved \in SettingsInputs \cup {DefaultSettings} :
                   AppBecomes(WhenReady(ap, saved))
            [] task.op = "write" ->
                 \E ok \in BOOLEAN : AppBecomes(Written(ap, task, ok))
            [] task.op = "api-start" ->
                 \E ok \in BOOLEAN : AppBecomes(Listened(ap, ok))
            [] task.op = "api-stop" -> AppBecomes(Closed(ap))
  /\ UNCHANGED ops

\* the Settings tab invokes "save-settings" with a settings object
SaveSettingsInvoked ==
  /\ Ready
  /\ ops < MaxOps
  /\ ops' = ops + 1
  /\ \E input \in SettingsInputs :
       LET s1 == Alloc(App, input) IN
       AppBecomes(SaveSettings(s1, Len(s1.heap), "save-settings"))

\* the menu item "toggle-api-server" is clicked
ToggleApiServer ==
  /\ Ready
  /\ ops < MaxOps
  /\ ops' = ops + 1
  /\ LET on == Truthy(heap[userSettings].apiServerEnabled)
         s1 == [App EXCEPT !.heap[userSettings].apiServerEnabled = Bool(~on)]
         s2 == IF on THEN StopApiServer(s1) ELSE StartApiServer(s1)
     IN AppBecomes(SaveSettings(s2, userSettings, "none"))

\* the menu item "toggle-mcp-server" is clicked
ToggleMcpServer ==
  /\ Ready
  /\ ops < MaxOps
  /\ ops' = ops + 1
  /\ LET on == Truthy(heap[userSettings].mcpServerEnabled)
         s1 == [App EXCEPT !.heap[userSettings].mcpServerEnabled = Bool(~on)]
         s2 == IF on THEN StopMcpServer(s1) ELSE StartMcpServer(s1)
     IN AppBecomes(SaveSettings(s2, userSettings, "none"))

\* the renderer invokes one of the start and stop handlers
StartStopRequested ==
  /\ Ready
  /\ ops < MaxOps
  /\ ops' = ops + 1
  /\ \E channel \in StartStopChannels :
       AppBecomes(StartStopInvoked(App, channel))

\* the servers are switched on and off from the menu and by the renderer
NextLifecycle ==
  \/ TaskSettles
  \/ ToggleApiServer
  \/ ToggleMcpServer
  \/ StartStopRequested

NextMain ==
  \/ TaskSettles
  \/ SaveSettingsInvoked
  \/ ToggleApiServer
  \/ ToggleMcpServer

\* bodies a client can post: no settings, a new credential, new patterns
\* with a port, the MCP flag
PostBodies ==
  {Undef,
   [anthropicApiKey |-> Str("sk-ant-2")],
   [ignorePatterns |-> PatternsA, apiServerPort |-> Num(8080)],
   [mcpServerEnabled |-> Bool(TRUE)]}

\* the requests of the REST API that were not answered yet
Posting == {i \in DOMAIN tasks : tasks[i].op = "write"
                                   /\ tasks[i].then = "POST /api/settings"}

Serving ==
  /\ apiServer # Null
  /\ apiServer.server = "listening"
  /\ Len(http) + Cardinality(Posting) < MaxHttp

\* a client requests GET /api/settings
GetSettingsRequested ==
  /\ Serving
  /\ AppBecomes(GetSettings(App))
  /\ UNCHANGED ops

\* a client requests POST /api/settings
PostSettingsRequested ==
  /\ Serving
  /\ \E body \in PostBodies : AppBecomes(PostSettings(App, body))
  /\ UNCHANGED ops

NextApi ==
  \/ TaskSettles
  \/ GetSettingsRequested
  \/ PostSettingsRequested

\* requests a client of the MCP engine sends while the application runs
EngineMsgs ==
  {GetResource(Num(7), Str("settings")),
   Call(Num(9), "get_directory_structure",
        [NoInput EXCEPT !.folderPath = Str("/p")]),
   Call(Num(8), "count_tokens", [NoInput EXCEPT !.text = Str("hello")])}

\* what an engine whose this.settings is the object live writes and invokes
\* in the turn in which it handles the message
McpAnswer(live, message) ==
  LET st == HandleJsonRpcMessage([Engine EXCEPT !.settings = live], message)
  IN [stdout |-> st.stdout, calls |-> st.calls]

\* the McpServer instance of main.js handles a message: its this.settings
\* is the object it was constructed with
McpHandles(ap, message) ==
  [ap EXCEPT !.http =
     Append(@, [route |-> "mcp", msg |-> message,
                body |-> McpAnswer(ap.heap[ap.mcpServer.settings], message)])]

\* a message arrives for the running MCP engine
McpMessageArrives ==
  /\ mcpServer # Null
  /\ Len(http) + Cardinality(Posting) < MaxHttp
  /\ \E message \in EngineMsgs : AppBecomes(McpHandles(App, message))
  /\ UNCHANGED ops

\* the application with its MCP engine in use
NextLive ==
  \/ TaskSettles
  \/ SaveSettingsInvoked
  \/ ToggleMcpServer
  \/ McpMessageArrives

\* the application alone: nothing arrives on standard input
InitMain == InitWith({}, {<<>>}, {""}, {FALSE}, {TRUE})

SpecMain == InitMain /\ [][NextMain]_vars

SpecApi == InitMain /\ [][NextApi]_vars

SpecLifecycle == InitMain /\ [][NextLifecycle]_vars

SpecLive == InitMain /\ [][NextLive]_vars

(***************************************************************************)
(* Client messages the specifications draw from.                           *)
(***************************************************************************)
CountTokensCall(id) ==
  Call(id, "count_tokens", [NoInput EXCEPT !.text = Str("hello")])

GenerateCall(id, patterns) ==
  Call(id, "generate_markdown",
       [NoInput EXCEPT !.folderPath = Str("/p"), !.ignorePatterns = patterns])

ScanCall(id) ==
  Call(id, "get_directory_structure", [NoInput EXCEPT !.folderPath = Str("/p")])

\* id values a client can choose: a number, zero, the empty string, a
\* non-empty string, and no id at all
Ids == {Num(7), Num(0), Str(""), Str("a"), Undef}

\* requests with every kind of id, for the methods that answer in one turn
\* and for one tool call that awaits its handler
IdMsgs ==
  {Req(id, "initialize", Undef) : id \in Ids}
    \cup {Req(id, "tools/list", Undef) : id \in {Num(0), Str("")}}
    \cup {GetResource(Num(0), Str("settings")), Req(Str(""), "shutdown", Undef),
          Req(Num(0), "resources/list", Undef)}
    \cup {CountTokensCall(id) : id \in {Num(7), Num(0)}}

\* a JSON text may be surrounded by whitespace
Padded(m) == <<SP>> \o Stringify(m) \o <<SP>>

SpecLines ==
  BlankLines \cup MalformedLines \cup {Stringify(m) : m \in IdMsgs}
    \cup {Padded(Req(Num(7), "tools/list", Undef))}

Init == InitWith(SpecLines, {<<>>}, {"", "sk-ant-1"}, {FALSE}, {TRUE})

Spec == Init /\ [][Next]_vars

\* Messages for the envelope checks: JSON values that are not objects,
\* envelopes whose version is not "2.0", methods outside the table, absent
\* params or input, and one well-formed tool call.
NonObjects == {Null, Num(5), Arr(<<>>)}

WrongVersion ==
  {Msg(Str("1.0"), Num(7), Str("initialize"), Undef),
   Msg(Undef, Num(7), Str("tools/call"),
       Params(Str("generate_markdown"),
              [NoInput EXCEPT !.folderPath = Str("/p"),
                              !.ignorePatterns = PatternsB])),
   Msg(Num(2), Num(7), Str("tools/list"), Undef),
   Msg(Str("1.0"), Undef, Str("nosuch"), Undef),
   Msg(Str("2"), Num(0), Undef, Undef)}

OtherMethods ==
  {Req(Num(7), "nosuch", Undef),
   Req(Num(7), "", Undef),
   Req(Num(0), "tools/List", Undef),
   Msg(Str("2.0"), Num(7), Undef, Undef)}

MissingParts ==
  {Req(Num(7), "tools/call", Undef),
   Call(Num(7), "generate_markdown", Undef),
   Call(Num(7), "count_tokens", Null),
   Req(Num(7), "resources/get", Undef)}

EnvelopeMsgs ==
  NonObjects \cup WrongVersion \cup OtherMethods \cup MissingParts
    \cup {ScanCall(Num(9))}

InitEnvelope ==
  InitWith({<<>>} \cup {Stringify(m) : m \in EnvelopeMsgs}, {<<>>},
           {"", "sk-ant-1"}, {FALSE}, {TRUE})

SpecEnvelope == InitEnvelope /\ [][Next]_vars

\* Messages for the checks of tools/call and resources/get: names that are
\* absent, empty, unregistered or registered, next to well-formed calls.
NamelessMsgs ==
  {Req(Num(7), "tools/call", Undef),
   Req(Num(7), "tools/call", Null),
   Req(Num(0), "tools/call", Params(Undef, [NoInput EXCEPT !.folderPath = Str("/p")])),
   Req(Num(7), "tools/call",
       Params(Str(""), [NoInput EXCEPT !.folderPath = Str("/p"),
                                       !.ignorePatterns = PatternsB])),
   Req(Num(7), "resources/get", Undef),
   GetResource(Num(7), Undef),
   GetResource(Num(0), Str(""))}

UnknownToolMsgs ==
  {Call(Num(7), "nosuch", [NoInput EXCEPT !.folderPath = Str("/p"),
                                          !.ignorePatterns = PatternsB]),
   Call(Num(0), "Generate_Markdown", [NoInput EXCEPT !.folderPath = Str("/p")]),
   Call(Num(7), "settings", Undef)}

ResourceMsgs ==
  {GetResource(Num(7), Str("settings")),
   GetResource(Num(0), Str("settings")),
   GetResource(Num(7), Str("nosuch")),
   GetResource(Num(7), Str("Settings")),
   GetResource(Num(0), Str("generate_markdown"))}

CallMsgs ==
  NamelessMsgs \cup UnknownToolMsgs \cup {ScanCall(Num(9))}

InitCalls ==
  InitWith({Stringify(m) : m \in CallMsgs}, {<<>>}, {"", "sk-ant-1"}, {FALSE},
           {TRUE})

SpecCalls == InitCalls /\ [][Next]_vars

\* credentials the settings can hold
Credentials == {"", "sk-ant-1", "sk-ant-2"}

ResourceCallMsgs ==
  ResourceMsgs \cup {ScanCall(Num(9))}

InitResources ==
  InitWith({Stringify(m) : m \in ResourceCallMsgs}, {<<>>}, Credentials,
           {FALSE}, {TRUE})

SpecResources == InitResources /\ [][Next]_vars

\* Messages for the checks of count_tokens: texts of several lengths, the
\* empty text, no text, and a model name.
Texts == {"hello", "", "abcd"}

TokenMsgs ==
  {Call(Num(7), "count_tokens", [NoInput EXCEPT !.text = Str(t)]) : t \in Texts}
    \cup {Call(Num(0), "count_tokens",
                [NoInput EXCEPT !.text = Str("hello"), !.model = Str("claude")]),
          Call(Num(7), "count_tokens", NoInput)}

InitTokens ==
  InitWith({Stringify(m) : m \in TokenMsgs}, {<<>>}, {"", "sk-ant-1"}, {FALSE},
           {TRUE, FALSE})

SpecTokens == InitTokens /\ [][Next]_vars

\* Messages for the checks of the ignore-pattern override: generate_markdown
\* with two different overrides.
OverrideMsgs ==
  {GenerateCall(Num(7), PatternsA), GenerateCall(Num(8), PatternsB)}

\* one tree with nested files
OneTree ==
  {Dir("/p", <<File("/p/a"), Dir("/p/d", <<File("/p/d/b")>>), File("/p/c")>>)}

InitOverrides ==
  InitOn({Stringify(m) : m \in OverrideMsgs}, {<<>>}, {""}, {FALSE}, {TRUE},
         OneTree, {Str("hello"), Undef})

SpecOverrides == InitOverrides /\ [][Next]_vars

\* Messages for the checks of requests without an override: a
\* generate_markdown call with an override, one without, and a directory scan.
PlainMsgs ==
  {GenerateCall(Num(7), PatternsA), GenerateCall(Num(9), Undef),
   ScanCall(Num(9))}

InitPlain ==
  InitOn({Stringify(m) : m \in PlainMsgs}, {<<>>}, {""}, {FALSE}, {TRUE},
         OneTree, {Str("hello")})

SpecPlain == InitPlain /\ [][Next]_vars

\* Messages for the checks of failing tool calls: a handler that throws at
\* once, and calls whose scanner, assembler, stats computation or packaging
\* tool can fail.
FailureMsgs ==
  {Call(Num(7), "count_tokens", NoInput),
   ScanCall(Num(9)),
   Call(Num(7), "generate_markdown",
        [NoInput EXCEPT !.folderPath = Str("/p"),
                        !.selectedPaths = Arr(<<"/p/a">>)]),
   Call(Num(8), "pack_remote_repository",
        [NoInput EXCEPT !.repoUrl = Str("https://h/r")])}

InitFailures ==
  InitOn({Stringify(m) : m \in FailureMsgs}, {<<>>}, {""}, {FALSE, TRUE},
         {TRUE}, OneTree, {Str("hello"), Undef})

SpecFailures == InitFailures /\ [][Next]_vars

\* Messages for the checks of shutdown: shutdown requests next to tool calls
\* that await a collaborator or only the microtask queue.
ShutdownMsgs ==
  {Req(Num(7), "shutdown", Undef), Req(Num(0), "shutdown", NoInput),
   ScanCall(Num(9)), CountTokensCall(Num(8))}

InitShutdown ==
  InitOn({Stringify(m) : m \in ShutdownMsgs}, {<<>>}, {""}, {FALSE}, {TRUE},
         OneTree, {Str("hello")})

SpecShutdown == InitShutdown /\ [][Next]_vars

\* The event loop runs every queued microtask, and the file system answers
\* every scan it was asked for.
FairShutdown ==
  SpecShutdown /\ WF_vars(RunMicrotask) /\ WF_vars(CollaboratorSettles)

\* Input for the checks of the framer: blank and malformed lines, a padded
\* request, a request whose id holds a two-byte character, a tool call, and
\* an unfinished last line.
WideMsg == Req(WideId, "tools/list", Undef)

FramingLines ==
  {<<>>, <<JUNK>>, Padded(Req(Num(7), "tools/list", Undef)),
   StringifyWide(WideMsg), Stringify(ScanCall(Num(9)))}

FramingTails ==
  {<<>>, Stringify(Req(Num(0), "tools/list", Undef)),
   <<LBrace(WideMsg), LEAD, CONT>>}

InitFraming ==
  InitOn(FramingLines, FramingTails, {""}, {FALSE}, {TRUE}, OneTree,
         {Str("hello")})

SpecFraming == InitFraming /\ [][Next]_vars

\* Messages for the checks of interleaving: a tool call that awaits the
\* scanner and one that awaits only the microtask queue, next to the
\* requests that are answered in the turn they arrive.
InterleaveMsgs ==
  {ScanCall(Num(9)), CountTokensCall(Num(8)), Req(Num(7), "tools/list", Undef),
   Req(Num(0), "resources/list", Undef), GetResource(Num(7), Str("settings"))}

InitInterleave ==
  InitOn({Stringify(m) : m \in InterleaveMsgs}, {<<>>}, {""}, {FALSE}, {TRUE},
         OneTree, {Str("hello")})

SpecInterleave == InitInterleave /\ [][Next]_vars

\* Messages for the checks of missing parameters: every tool called without
\* its required parameter but with its other parameters, next to one
\* well-formed directory scan.
MissingParameterMsgs ==
  {Call(Num(7), "generate_markdown",
        [NoInput EXCEPT !.ignorePatterns = PatternsA,
                        !.selectedPaths = Arr(<<"/p/a">>)]),
   Call(Num(8), "get_directory_structure",
        [NoInput EXCEPT !.ignorePatterns = PatternsB]),
   Call(Num(7), "pack_remote_repository",
        [NoInput EXCEPT !.folderPath = Str("/p")]),
   Call(Num(0), "process_with_security",
        [NoInput EXCEPT !.repoUrl = Str("https://h/r")]),
   Call(Num(7), "count_tokens", [NoInput EXCEPT !.model = Str("claude")]),
   ScanCall(Num(9))}

InitMissingParameter ==
  InitOn({Stringify(m) : m \in MissingParameterMsgs}, {<<>>}, {""},
         {FALSE, TRUE}, {TRUE}, OneTree, {Str("hello")})

SpecMissingParameter == InitMissingParameter /\ [][Next]_vars

\* Messages for the checks of the directory scan: a scan with an override of
\* its own, one without, and a generate_markdown call whose override is in
\* the shared settings while it runs.
ScanMsgs ==
  {Call(Num(8), "get_directory_structure",
        [NoInput EXCEPT !.folderPath = Str("/p"), !.ignorePatterns = PatternsB]),
   ScanCall(Num(9)),
   GenerateCall(Num(7), PatternsA)}

InitScans ==
  InitOn({Stringify(m) : m \in ScanMsgs}, {<<>>}, {""}, {FALSE}, {TRUE},
         OneTree, {Str("hello")})

SpecScans == InitScans /\ [][Next]_vars

\* Messages for the checks of the paths of generate_markdown: a call with
\* selected paths in an order of their own, one with an empty selection and
\* one without a selection.
SelectionMsgs ==
  {Call(Num(7), "generate_markdown",
        [NoInput EXCEPT !.folderPath = Str("/p"),
                        !.selectedPaths = Arr(<<"/p/c", "/p/a">>)]),
   Call(Num(8), "generate_markdown",
        [NoInput EXCEPT !.folderPath = Str("/p"), !.selectedPaths = Arr(<<>>)]),
   GenerateCall(Num(9), Undef)}

InitSelection ==
  InitOn({Stringify(m) : m \in SelectionMsgs}, {<<>>}, {""}, {FALSE}, {TRUE},
         OneTree, {Str("hello")})

SpecSelection == InitSelection /\ [][Next]_vars

\* Messages for the checks of failing collaborators: one call for each tool
\* that awaits the scanner, the assembler or a packaging tool.
CollaboratorMsgs ==
  {GenerateCall(Num(9), Undef),
   Call(Num(8), "pack_remote_repository",
        [NoInput EXCEPT !.repoUrl = Str("https://h/r")]),
   Call(Num(7), "process_with_security",
        [NoInput EXCEPT !.folderPath = Str("/p")])}

InitCollaborators ==
  InitOn({Stringify(m) : m \in CollaboratorMsgs}, {<<>>}, {""}, {TRUE}, {TRUE},
         OneTree, {Str("hello")})

SpecCollaborators == InitCollaborators /\ [][Next]_vars

\* Messages for the checks of the stats: a count_tokens call and a
\* generate_markdown call, with and without a tokenizer, for a document that
\* is empty or not.
StatsMsgs == {CountTokensCall(Num(8)), GenerateCall(Num(9), Undef)}

InitStats ==
  InitOn({Stringify(m) : m \in StatsMsgs}, {<<>>}, {""}, {FALSE},
         {TRUE, FALSE}, OneTree, {Str("hello"), Str("")})

SpecStats == InitStats /\ [][Next]_vars

\* Messages for the checks of the packaging tools: both tools with their
\* options omitted, and pack_remote_repository with its options given; the
\* engine is built with or without the packaging collaborator.
PackagingMsgs ==
  {Call(Num(8), "pack_remote_repository",
        [NoInput EXCEPT !.repoUrl = Str("https://h/r")]),
   Call(Num(9), "pack_remote_repository",
        [NoInput EXCEPT !.repoUrl = Str("https://h/r"),
                        !.securityCheck = Bool(TRUE), !.style = Str("xml")]),
   Call(Num(7), "process_with_security",
        [NoInput EXCEPT !.folderPath = Str("/p")])}

InitPackaging ==
  InitOn({Stringify(m) : m \in PackagingMsgs}, {<<>>}, {""}, {FALSE, TRUE},
         {TRUE}, OneTree, {Str("hello")})

SpecPackaging == InitPackaging /\ [][Next]_vars

TempFileMsgs ==
  {Call(Num(8), "pack_remote_repository",
        [NoInput EXCEPT !.repoUrl = Str("https://h/a")]),
   Call(Num(7), "process_with_security",
        [NoInput EXCEPT !.folderPath = Str("/p")])}

InitTempFiles ==
  InitOn({Stringify(m) : m \in TempFileMsgs}, {<<>>}, {""}, {TRUE}, {TRUE},
         OneTree, {Str("hello")})

SpecTempFiles == InitTempFiles /\ [][NextTempFiles]_vars

(***************************************************************************)
(* Properties.                                                             *)
(***************************************************************************)
\* the lines of standard output that are responses written for request r
ResponsesTo(r) ==
  {i \in DOMAIN stdout : IsResponse(stdout[i]) /\ stdout[i].req = r}

\* the collaborator invocations made for request r
CallsOf(r) == {i \in DOMAIN calls : calls[i].req = r}

\* a JSON-RPC 2.0 request object carrying an id and a method
IsRequest(m) ==
  /\ IsObject(m)
  /\ m.jsonrpc = Str("2.0")
  /\ ~IsUndef(m.id)
  /\ IsStr(m.method)

\* C1: every JSON-RPC 2.0 request carrying an id and a method gets exactly
\* one response with that id: never two, and one once its handling is over.
C1_ExactlyOneResponse ==
  \A r \in DOMAIN reqs :
    IsRequest(reqs[r].msg) =>
      LET n == Cardinality({i \in ResponsesTo(r) : stdout[i].id = reqs[r].msg.id})
      IN /\ n <= 1
         /\ reqs[r].pc = "done" => n = 1

\* C2: the id of every response to a client request is the id the request
\* carried, and only the startup push reads and advances nextId.
C2_ResponseIdIsRequestId ==
  /\ \A i \in DOMAIN stdout :
       (IsResponse(stdout[i]) /\ stdout[i].req > 0) =>
         stdout[i].id = Get(reqs[stdout[i].req].msg, "id")
  /\ nextId = IF listening THEN 2 ELSE 1

RECURSIVE SplitLines(_, _)
\* the newline-terminated lines of s, in order; cur is the line being read
SplitLines(s, cur) ==
  IF s = <<>> THEN <<>>
  ELSE IF Head(s) = NL THEN <<cur>> \o SplitLines(Tail(s), <<>>)
  ELSE SplitLines(Tail(s), Append(cur, Head(s)))

Spaces(n) == [i \in 1..n |-> SP]

\* the line is one JSON text with optional whitespace around it
IsJsonLine(line) ==
  \E a \in 0..Len(line) :
    /\ a + 2 <= Len(line)
    /\ "lb" \in DOMAIN line[a + 1]
    /\ line = Spaces(a) \o Stringify(line[a + 1].lb) \o Spaces(Len(line) - a - 2)

MessageOfLine(line) == SelectSeq(line, LAMBDA c : "lb" \in DOMAIN c)[1].lb

\* a line that is empty, whitespace-only, or not valid JSON
IsBadLine(line) == ~IsJsonLine(line)

RECURSIVE MessagesOf(_)
\* the messages of the lines that are JSON texts, in order
MessagesOf(lines) ==
  IF lines = <<>> THEN <<>>
  ELSE IF IsJsonLine(Head(lines))
       THEN <<MessageOfLine(Head(lines))>> \o MessagesOf(Tail(lines))
       ELSE MessagesOf(Tail(lines))

Dispatched == [r \in DOMAIN reqs |-> reqs[r].msg]

\* C3: bad lines (empty, whitespace-only, not JSON) are neither dispatched
\* nor answered, and the other complete lines are dispatched in order as if
\* the bad lines had not been sent: the dispatched messages are exactly the
\* messages of the good lines received, and every response belongs to one of
\* them or is the startup push.
C3_BadLinesAreSkipped ==
  /\ Dispatched = MessagesOf(SplitLines(received, <<>>))
  /\ Cardinality(ResponsesTo(0)) <= 1
  /\ \A i \in DOMAIN stdout :
       IsResponse(stdout[i]) => stdout[i].req \in 0..Len(reqs)

\* a malformed line was received and a later line was dispatched
C3_Witness ==
  LET lines == SplitLines(received, <<>>) IN
  \E i, j \in DOMAIN lines :
    /\ i < j
    /\ IsBadLine(lines[i]) /\ Trim(lines[i]) # <<>>
    /\ IsJsonLine(lines[j])
    /\ Len(reqs) >= 1
    /\ ResponsesTo(Len(reqs)) # {}

\* C4: no input line makes a failure escape the engine: the promise
\* returned by handleJsonRpcMessage never rejects.
C4_NoRejection == \A r \in DOMAIN reqs : reqs[r].pc # "rejected"

\* the response with code c is the only response written for request r
OnlyError(r, c) ==
  /\ Cardinality(ResponsesTo(r)) = 1
  /\ \A i \in ResponsesTo(r) :
       IsError(stdout[i]) /\ ~IsResult(stdout[i]) /\ stdout[i].error.code = c

\* no handler ran for request r: no collaborator invoked, settings untouched
NothingInvoked(r) == CallsOf(r) = {} /\ ~reqs[r].wrote

\* C5: a message whose jsonrpc field is not the string "2.0" gets an error
\* response with code -32600, never a result, and nothing is invoked for it.
C5_InvalidRequest ==
  \A r \in DOMAIN reqs :
    LET m == reqs[r].msg IN
    (~IsNull(m) /\ Get(m, "jsonrpc") # Str("2.0")) =>
      /\ OnlyError(r, -32600)
      /\ NothingInvoked(r)
      /\ reqs[r].pc = "done"

\* a tools/call for generate_markdown without the version tag was refused
C5_Witness ==
  \E r \in DOMAIN reqs :
    /\ IsObject(reqs[r].msg)
    /\ reqs[r].msg.jsonrpc = Undef
    /\ reqs[r].msg.method = Str("tools/call")
    /\ OnlyError(r, -32600)

\* C6: a 2.0 request whose method is outside the table gets an error
\* response with code -32601 whose message contains the method name, for
\* every method string, the empty one included.
C6_MethodNotFound ==
  \A r \in DOMAIN reqs :
    LET m == reqs[r].msg IN
    (IsObject(m) /\ m.jsonrpc = Str("2.0") /\ IsStr(m.method)
       /\ m.method.str \notin Methods) =>
      /\ OnlyError(r, -32601)
      /\ \A i \in ResponsesTo(r) :
           \E k \in DOMAIN stdout[i].error.message :
             stdout[i].error.message[k] = m.method.str

\* a tools/call request with a truthy name outside the five registered ones
IsUnknownToolCall(m) ==
  /\ IsObject(m)
  /\ m.jsonrpc = Str("2.0")
  /\ m.method = Str("tools/call")
  /\ Truthy(m.params)
  /\ IsStr(m.params.name)
  /\ m.params.name.str # ""
  /\ m.params.name.str \notin ToolSet

\* C7: tools/call with an unregistered name yields an error response with
\* code -32601 carrying the tool name; no collaborator is invoked and the
\* request does not assign the shared settings.
C7_UnknownTool ==
  \A r \in DOMAIN reqs :
    IsUnknownToolCall(reqs[r].msg) =>
      /\ OnlyError(r, -32601)
      /\ \A i \in ResponsesTo(r) :
           \E k \in DOMAIN stdout[i].error.message :
             stdout[i].error.message[k] = reqs[r].msg.params.name.str
      /\ NothingInvoked(r)

\* an unknown tool was called with an ignorePatterns override in its input
C7_Witness ==
  \E r \in DOMAIN reqs :
    /\ IsUnknownToolCall(reqs[r].msg)
    /\ Truthy(reqs[r].msg.params.input)
    /\ Truthy(reqs[r].msg.params.input.ignorePatterns)
    /\ reqs[r].pc = "done"

\* a tools/call or resources/get request without a name: params absent, or
\* name absent or empty
IsNameless(m) ==
  /\ IsObject(m)
  /\ m.jsonrpc = Str("2.0")
  /\ m.method \in {Str("tools/call"), Str("resources/get")}
  /\ \/ ~Truthy(m.params)
     \/ IsUndef(m.params.name)
     \/ m.params.name = Str("")

\* C8: tools/call and resources/get without a name each yield an error
\* response with code -32602 and invoke no handler or collaborator.
C8_MissingName ==
  \A r \in DOMAIN reqs :
    IsNameless(reqs[r].msg) => OnlyError(r, -32602) /\ NothingInvoked(r)

\* both methods were sent with an empty name and were answered
C8_Witness ==
  \E r1, r2 \in DOMAIN reqs :
    /\ reqs[r1].msg.method = Str("tools/call")
    /\ reqs[r2].msg.method = Str("resources/get")
    /\ \A r \in {r1, r2} :
         /\ Truthy(reqs[r].msg.params)
         /\ reqs[r].msg.params.name = Str("")
         /\ ResponsesTo(r) # {}

\* a resources/get request for the settings resource
IsSettingsGet(m) ==
  /\ IsObject(m)
  /\ m.jsonrpc = Str("2.0")
  /\ m.method = Str("resources/get")
  /\ Truthy(m.params)
  /\ m.params.name = Str("settings")

\* C9: the response to resources/get settings never contains the configured
\* credential: a configured anthropicApiKey is returned as "[REDACTED]", so
\* the response is the same whatever the credential is, and the live
\* settings still hold the raw credential.
C9_CredentialRedacted ==
  \A r \in DOMAIN reqs :
    IsSettingsGet(reqs[r].msg) =>
      /\ Cardinality(ResponsesTo(r)) = 1
      /\ \A i \in ResponsesTo(r) :
           /\ IsResult(stdout[i])
           /\ DOMAIN stdout[i].result.content = DOMAIN settings
           /\ stdout[i].result.content.anthropicApiKey =
                IF settings.anthropicApiKey = Str("") THEN Str("") ELSE Str(Redacted)
           /\ stdout[i].result.content.ignorePatterns
                \in {ConfiguredPatterns, PatternsA, PatternsB}
      /\ settings.anthropicApiKey \in {Str(k) : k \in Credentials}

\* the settings were read while a credential is configured
C9_Witness ==
  \E r \in DOMAIN reqs :
    /\ IsSettingsGet(reqs[r].msg)
    /\ ResponsesTo(r) # {}
    /\ settings.anthropicApiKey = Str("sk-ant-2")

\* C10: resources/get with a name other than "settings" fails with code
\* -32601 (UnknownCapability) and never with a result.
C10_UnknownResource ==
  \A r \in DOMAIN reqs :
    LET m == reqs[r].msg IN
    (IsObject(m) /\ m.jsonrpc = Str("2.0") /\ m.method = Str("resources/get")
       /\ Truthy(m.params) /\ Truthy(m.params.name)
       /\ m.params.name # Str("settings")) =>
      OnlyError(r, -32601)

\* an explicit initialize request
IsInitialize(m) ==
  IsObject(m) /\ m.jsonrpc = Str("2.0") /\ m.method = Str("initialize")

\* the lines written by the startup push (request 0) or for an explicit
\* initialize request
InitializeAnswers ==
  {i \in DOMAIN stdout :
     /\ IsResponse(stdout[i])
     /\ \/ stdout[i].req = 0
        \/ IsInitialize(reqs[stdout[i].req].msg)}

\* C11: initialize is idempotent: the startup push and the answer to every
\* explicit initialize request carry the same capability payload (tools and
\* resources true, prompts and roots false); every explicit initialize
\* request is answered once.
C11_InitializeIdempotent ==
  /\ \A i, j \in InitializeAnswers :
       /\ IsResult(stdout[i]) /\ ~IsError(stdout[i])
       /\ stdout[i].result = stdout[j].result
       /\ stdout[i].result.serverName = "Markdown Generator MCP Server"
       /\ stdout[i].result.serverVersion = "1.0.0"
       /\ stdout[i].result.protocolVersion = "0.1"
       /\ stdout[i].result.capabilities =
            [tools |-> TRUE, resources |-> TRUE, prompts |-> FALSE, roots |-> FALSE]
  /\ \A r \in DOMAIN reqs :
       IsInitialize(reqs[r].msg) => Cardinality(ResponsesTo(r)) = 1

\* the startup push and two explicit initialize requests were answered
C11_Witness ==
  \E r1, r2 \in DOMAIN reqs :
    /\ r1 < r2
    /\ IsInitialize(reqs[r1].msg)
    /\ IsInitialize(reqs[r2].msg)
    /\ Truthy(reqs[r2].msg.id)
    /\ Cardinality(InitializeAnswers) = 3

\* a tools/list (resources/list) request
IsList(m, method) ==
  IsObject(m) /\ m.jsonrpc = Str("2.0") /\ m.method = Str(method)

\* what handleJsonRpcMessage does in the current state with message m
Handled(m) == HandleJsonRpcMessage(Engine, m)

\* handling m writes one "Received message" log line and one result, and
\* changes nothing else but the list of requests
OnlyAnswers(m) ==
  LET h == Handled(m) IN
  /\ h.settings = settings
  /\ h.messageBuffer = messageBuffer
  /\ h.nextId = nextId
  /\ h.calls = calls
  /\ h.microtasks = microtasks
  /\ Len(h.stdout) = Len(stdout) + 2
  /\ SubSeq(h.stdout, 1, Len(stdout)) = stdout

\* C12: tools/list answers with the same five descriptors in the same order
\* (pairwise distinct names), resources/list with the one descriptor named
\* settings, whatever requests preceded; handling either leaves the
\* settings, the input buffer and nextId unchanged.
C12_ListsAreStatic ==
  /\ \A r \in DOMAIN reqs :
       IsList(reqs[r].msg, "tools/list") =>
         /\ Cardinality(ResponsesTo(r)) = 1
         /\ \A i \in ResponsesTo(r) :
              /\ IsResult(stdout[i])
              /\ [k \in DOMAIN stdout[i].result.tools |->
                    stdout[i].result.tools[k].name] = ToolNames
              /\ stdout[i].id = reqs[r].msg.id
  /\ \A r \in DOMAIN reqs :
       IsList(reqs[r].msg, "resources/list") =>
         /\ Cardinality(ResponsesTo(r)) = 1
         /\ \A i \in ResponsesTo(r) :
              /\ IsResult(stdout[i])
              /\ Len(stdout[i].result.resources) = 1
              /\ stdout[i].result.resources[1].name = "settings"
  /\ Cardinality(ToolSet) = 5
  /\ \A id \in {Num(7), Num(0)} :
       /\ OnlyAnswers(Req(id, "tools/list", Undef))
       /\ OnlyAnswers(Req(id, "resources/list", Undef))

\* both lists were requested after a tool call had been dispatched
C12_Witness ==
  \E r0, r1 \in DOMAIN reqs :
    /\ r0 < r1
    /\ reqs[r0].msg.method = Str("tools/call")
    /\ \/ IsList(reqs[r1].msg, "tools/list")
       \/ IsList(reqs[r1].msg, "resources/list")
    /\ ResponsesTo(r1) # {}

\* a tools/call of count_tokens whose input supplies a text string
IsCountTokens(m) ==
  /\ IsObject(m)
  /\ m.jsonrpc = Str("2.0")
  /\ m.method = Str("tools/call")
  /\ Truthy(m.params)
  /\ m.params.name = Str("count_tokens")
  /\ ~CannotDestructure(m.params.input)
  /\ IsStr(m.params.input.text)

\* C13: every count_tokens call that supplies a text string, the empty
\* string included, is answered by a success whose stats.characterCount is
\* the length of the text.
C13_CharacterCount ==
  \A r \in DOMAIN reqs :
    IsCountTokens(reqs[r].msg) =>
      /\ \A i \in ResponsesTo(r) :
           /\ IsResult(stdout[i]) /\ ~IsError(stdout[i])
           /\ stdout[i].result.result.stats.characterCount =
                Len(reqs[r].msg.params.input.text.str)
      /\ reqs[r].pc = "done" => Cardinality(ResponsesTo(r)) = 1

\* a well-formed tools/call of the named tool with an input object
IsCallOf(m, tool) ==
  /\ IsObject(m)
  /\ m.jsonrpc = Str("2.0")
  /\ m.method = Str("tools/call")
  /\ Truthy(m.params)
  /\ m.params.name = Str(tool)
  /\ ~CannotDestructure(m.params.input)

\* a generate_markdown call with an ignorePatterns override and no
\* selectedPaths
IsOverrideCall(m) ==
  /\ IsCallOf(m, "generate_markdown")
  /\ Truthy(m.params.input.folderPath)
  /\ Truthy(m.params.input.ignorePatterns)
  /\ ~Truthy(m.params.input.selectedPaths)

\* the scanner invocations made for request r
ScansOf(r) == {i \in CallsOf(r) : calls[i].fn = "getDirectoryStructure"}

\* C14: the scanner is invoked for every generate_markdown call that has an
\* override with that call's own override, also when another call with a
\* different override is in flight.
C14_OwnOverride ==
  \A r \in DOMAIN reqs :
    IsOverrideCall(reqs[r].msg) =>
      /\ Cardinality(ScansOf(r)) = 1
      /\ \A i \in ScansOf(r) :
           calls[i].args[2] = reqs[r].msg.params.input.ignorePatterns

\* two calls with different overrides were in flight at the same time and
\* the one received first went on after the second one had started
C14_Witness ==
  \E r1, r2 \in DOMAIN reqs :
    /\ r1 < r2
    /\ IsOverrideCall(reqs[r1].msg) /\ IsOverrideCall(reqs[r2].msg)
    /\ reqs[r1].msg.params.input.ignorePatterns
         # reqs[r2].msg.params.input.ignorePatterns
    /\ reqs[r1].pc = "gen" /\ reqs[r2].pc = "scan"

\* a generate_markdown or get_directory_structure call without an override
\* and without selectedPaths
IsPlainScan(m) ==
  /\ IsCallOf(m, "generate_markdown") \/ IsCallOf(m, "get_directory_structure")
  /\ Truthy(m.params.input.folderPath)
  /\ ~Truthy(m.params.input.ignorePatterns)
  /\ ~Truthy(m.params.input.selectedPaths)

\* C15: a request without an override passes the configured patterns to the
\* scanner, also while a call with an override is in flight.
C15_NoLeak ==
  \A r \in DOMAIN reqs :
    IsPlainScan(reqs[r].msg) =>
      \A i \in ScansOf(r) : calls[i].args[2] = ConfiguredPatterns

\* C16: once every request has completed the shared ignore patterns are
\* what they were before the requests were received.
C16_RestoredAfterAll ==
  (\A r \in DOMAIN reqs : reqs[r].pc \in Over) =>
    settings.ignorePatterns = ConfiguredPatterns

\* the tool handler of request r has returned or thrown
HandlerOver(r) == reqs[r].pc \in {"tc", "jr", "done"}

\* C17: after a generate_markdown call with an override that ran with no
\* other request in flight, the shared ignore patterns are what they were
\* before the call, whether it succeeded or failed.
C17_RestoredAfterOne ==
  \A r \in DOMAIN reqs :
    (/\ IsOverrideCall(reqs[r].msg)
     /\ reqs[r].alone
     /\ HandlerOver(r)
     /\ \A j \in DOMAIN reqs : j > r => ~reqs[j].wrote) =>
      settings.ignorePatterns = reqs[r].before

\* a call that ran alone installed its override and failed in the assembler
C17_Witness ==
  \E r \in DOMAIN reqs :
    /\ IsOverrideCall(reqs[r].msg)
    /\ reqs[r].alone
    /\ reqs[r].wrote
    /\ reqs[r].pc = "done"
    /\ reqs[r].pending = Fail(<<"EACCES">>)

\* the promise of the tool handler of request r was rejected
HandlerFailed(r) == "fail" \in DOMAIN reqs[r].pending

\* an awaited collaborator or calculateStats threw into the handler of r
Thrown(r) == "fail" \in DOMAIN reqs[r].threw

\* every part of the text e occurs in the message of stdout[i]
Contains(i, e) ==
  \A k \in DOMAIN e :
    \E n \in DOMAIN stdout[i].error.message : stdout[i].error.message[n] = e[k]

\* C18: a failure thrown by a tool handler or by a collaborator it awaits
\* becomes exactly one error response with code -32603 whose message
\* contains the failure's text; no result is sent for the request and no
\* error with code -32000.
C18_ToolCallFailure ==
  \A r \in DOMAIN reqs :
    /\ (Thrown(r) /\ HandlerOver(r)) => HandlerFailed(r)
    /\ HandlerFailed(r) =>
         /\ \A i \in ResponsesTo(r) :
              /\ IsError(stdout[i]) /\ ~IsResult(stdout[i])
              /\ stdout[i].error.code = -32603
              /\ Contains(i, reqs[r].pending.fail)
              /\ Thrown(r) => Contains(i, reqs[r].threw.fail)
         /\ reqs[r].pc \in {"jr", "done"} => Cardinality(ResponsesTo(r)) = 1

\* the packaging tool failed for one request and the error response to it
\* was written
C18_Witness ==
  \E r \in DOMAIN reqs :
    /\ reqs[r].threw = Fail(<<"clone failed">>)
    /\ reqs[r].pc = "done"
    /\ ResponsesTo(r) # {}

\* C19: every line written to standard output is one JSON-RPC 2.0 message
\* with an id and exactly one of result and error; no log text is written
\* to it.
C19_OnlyMessages ==
  \A i \in DOMAIN stdout :
    /\ IsResponse(stdout[i])
    /\ stdout[i].jsonrpc = "2.0"
    /\ ~IsUndef(stdout[i].id)
    /\ IsResult(stdout[i]) # IsError(stdout[i])

\* C20: starting the engine sends the initialize result exactly once,
\* without a client request, as the first line of the output channel.
C20_PushFirst ==
  IF ~listening THEN stdout = <<>>
  ELSE /\ stdout # <<>>
       /\ stdout[1] = ResultMsg(0, Num(1), InitializeResult)
       /\ ResponsesTo(0) = {1}

\* the engine was started and has answered a client's request since
C20_Witness ==
  /\ listening
  /\ \E r \in DOMAIN reqs : ResponsesTo(r) # {}

IsShutdown(m) ==
  /\ IsObject(m)
  /\ m.jsonrpc = Str("2.0")
  /\ m.method = Str("shutdown")

\* every shutdown request has one response, a result that is the empty
\* object, with the id of the request
ShutdownAnswered ==
  \A j \in DOMAIN reqs :
    IsShutdown(reqs[j].msg) =>
      /\ Cardinality(ResponsesTo(j)) = 1
      /\ \A i \in ResponsesTo(j) :
           /\ IsResult(stdout[i]) /\ ~IsError(stdout[i])
           /\ stdout[i].result = EmptyObject
           /\ stdout[i].id = reqs[j].msg.id

\* request r is a tool call that had no response yet when a shutdown
\* request was received after it
PendingAtShutdown(r) ==
  /\ r \in DOMAIN reqs
  /\ IsCallOf(reqs[r].msg, "get_directory_structure")
       \/ IsCallOf(reqs[r].msg, "count_tokens")
  /\ ResponsesTo(r) = {}
  /\ \E j \in DOMAIN reqs : j > r /\ IsShutdown(reqs[j].msg)

\* request r is over and was answered once, after every shutdown request
\* that was received after it
CompletedAfterShutdown(r) ==
  /\ r \in DOMAIN reqs
  /\ reqs[r].pc = "done"
  /\ Cardinality(ResponsesTo(r)) = 1
  /\ \A i \in ResponsesTo(r) :
       \A j \in DOMAIN reqs :
         (j > r /\ IsShutdown(reqs[j].msg)) =>
           \A k \in ResponsesTo(j) : k < i

\* C21: a shutdown request is answered with one success response whose
\* result is the empty object, and every request in flight when it was
\* received still completes and gets its own response afterwards.
C21_ShutdownKeepsInFlight ==
  /\ []ShutdownAnswered
  /\ \A r \in 1..(MaxLines + 1) :
       PendingAtShutdown(r) ~> CompletedAfterShutdown(r)

\* a tool call received before a shutdown request was answered after it
C21_Witness ==
  \E r, j \in DOMAIN reqs :
    /\ r < j
    /\ IsShutdown(reqs[j].msg)
    /\ IsCallOf(reqs[r].msg, "get_directory_structure")
    /\ CompletedAfterShutdown(r)

\* in this step the file write of a "save-settings" invocation succeeded and
\* its handler ran to its end: userSettings now is the object it was given
SaveSettingsSucceeds ==
  /\ userSettings' # userSettings
  /\ \E i \in DOMAIN tasks :
       /\ tasks[i].op = "write"
       /\ tasks[i].then = "save-settings"
       /\ tasks[i].ref = userSettings'

\* C22: after a successful save-settings an API server instance exists
\* exactly when the saved apiServerEnabled flag is true, and an MCP server
\* instance exactly when the saved mcpServerEnabled flag is true.
C22_SaveAppliesFlags ==
  [][SaveSettingsSucceeds =>
       /\ (apiServer' # Null) = Truthy(heap'[userSettings'].apiServerEnabled)
       /\ (mcpServer' # Null) = Truthy(heap'[userSettings'].mcpServerEnabled)]_vars

\* the replies to GET /api/settings
SettingsReplies == {i \in DOMAIN http : http[i].route = "GET /api/settings"}

\* C23: no reply to GET /api/settings carries the anthropicApiKey field,
\* whatever was posted before, and answering it leaves every live settings
\* object and its credential as they are.
C23_KeyNeverReturned ==
  /\ \A i \in SettingsReplies :
       /\ http[i].status = 200
       /\ "anthropicApiKey" \notin DOMAIN http[i].body.settings
       /\ "ignorePatterns" \in DOMAIN http[i].body.settings
  /\ \A ref \in DOMAIN heap : "anthropicApiKey" \in DOMAIN heap[ref]
  /\ (apiServer # Null) =>
       /\ GetSettings(App).heap = heap
       /\ GetSettings(App).apiServer = apiServer
       /\ GetSettings(App).userSettings = userSettings

\* the settings were requested after a posted credential had been saved
C23_Witness ==
  /\ apiServer # Null
  /\ heap[apiServer.settings].anthropicApiKey = Str("sk-ant-2")
  /\ \E i \in SettingsReplies :
       \E k \in DOMAIN http :
         k < i /\ http[k].route = "POST /api/settings" /\ http[k].status = 200

\* the engine as constructed, given the whole input as one chunk
OneChunk ==
  StdinData([Engine EXCEPT !.messageBuffer = <<>>, !.reqs = <<>>,
                           !.microtasks = <<>>, !.stdout = <<>>,
                           !.calls = <<>>, !.nextId = 1],
            received)

\* the number of newlines in s
RECURSIVE Newlines(_)
Newlines(s) ==
  IF s = <<>> THEN 0
  ELSE (IF Head(s) = NL THEN 1 ELSE 0) + Newlines(Tail(s))

\* C24: however the input was split into chunks, the messages dispatched
\* are those dispatched when the input received so far is fed as one chunk,
\* in the same order, and a line is not dispatched before its newline.
C24_ChunkingIndependent ==
  /\ Dispatched = [r \in DOMAIN OneChunk.reqs |-> OneChunk.reqs[r].msg]
  /\ Len(reqs) <= Newlines(received)

\* the part of s after its last newline
RECURSIVE AfterLastNewline(_)
AfterLastNewline(s) ==
  IF IndexOf(s, NL) = 0 THEN s
  ELSE AfterLastNewline(SubSeq(s, IndexOf(s, NL) + 1, Len(s)))

\* C25: the pending buffer holds no newline and is the part of the input
\* received so far that follows the last newline; only handleStdinData
\* changes the buffer.
C25_BufferIsPendingTail ==
  /\ [](IndexOf(messageBuffer, NL) = 0)
  /\ []((received = <<>> \/ received[Len(received)] # LEAD) =>
          messageBuffer = DataToString(AfterLastNewline(received)))
  /\ [][messageBuffer' # messageBuffer => received' # received]_vars

\* the request is one the dispatcher answers without awaiting anything
AnsweredAtOnce(m) ==
  /\ IsRequest(m)
  /\ m.method \in {Str("tools/list"), Str("resources/list"), Str("resources/get")}

\* the handler of tool call r has not finished
StillRunning(r) ==
  /\ IsRequest(reqs[r].msg)
  /\ reqs[r].msg.method = Str("tools/call")
  /\ ~HandlerOver(r)
  /\ ResponsesTo(r) = {}

\* C26: framing never waits for a handler: whatever handlers are still
\* running, every complete line received has been dispatched, and every
\* tools/list, resources/list and resources/get dispatched has its response
\* on stdout, so a tool call that never completes delays nobody.
C26_FramingNeverWaits ==
  /\ Len(reqs) = Len(MessagesOf(SplitLines(received, <<>>)))
  /\ \A r \in DOMAIN reqs :
       AnsweredAtOnce(reqs[r].msg) => Cardinality(ResponsesTo(r)) = 1

\* a request that arrived in the same chunk as a tool call, and after it,
\* has its response on stdout while the tool call is still running: the
\* first continuation of the tool call is still in the microtask queue, so
\* no turn of the event loop ended between the two dispatches
C26_Witness ==
  \E r1, r2 \in DOMAIN reqs :
    /\ r1 < r2
    /\ StillRunning(r1)
    /\ \E i \in DOMAIN microtasks : microtasks[i] = r1
    /\ AnsweredAtOnce(reqs[r2].msg)
    /\ ResponsesTo(r2) # {}

\* the parameter each tool requires
RequiredParameter(tool) ==
  CASE tool = "pack_remote_repository" -> "repoUrl"
    [] tool = "count_tokens" -> "text"
    [] OTHER -> "folderPath"

\* a call of a registered tool whose input lacks the required parameter
MissesRequired(m) ==
  \E tool \in ToolSet :
    /\ IsCallOf(m, tool)
    /\ IsUndef(m.params.input[RequiredParameter(tool)])

\* C27: a tool call without its required parameter invokes no collaborator,
\* is answered by an error and by nothing else, and never installs an
\* ignorePatterns override; the shared settings do not change.
C27_MissingParameter ==
  /\ [](\A r \in DOMAIN reqs :
          MissesRequired(reqs[r].msg) =>
            /\ CallsOf(r) = {}
            /\ ~reqs[r].wrote
            /\ \A i \in ResponsesTo(r) : IsError(stdout[i]) /\ ~IsResult(stdout[i])
            /\ HandlerOver(r) => HandlerFailed(r)
            /\ reqs[r].pc = "done" => Cardinality(ResponsesTo(r)) = 1)
  /\ [][settings' = settings]_vars

\* a generate_markdown call without folderPath but with an override was
\* answered by an error
C27_Witness ==
  \E r \in DOMAIN reqs :
    /\ IsCallOf(reqs[r].msg, "generate_markdown")
    /\ MissesRequired(reqs[r].msg)
    /\ Truthy(reqs[r].msg.params.input.ignorePatterns)
    /\ reqs[r].pc = "done"
    /\ \E i \in ResponsesTo(r) : IsError(stdout[i])

\* a well-formed get_directory_structure call
IsScan(m) ==
  /\ IsCallOf(m, "get_directory_structure")
  /\ Truthy(m.params.input.folderPath)

\* the ignore patterns the scan of request r has to hand to the scanner
PatternsFor(r) ==
  IF Truthy(reqs[r].msg.params.input.ignorePatterns)
  THEN reqs[r].msg.params.input.ignorePatterns
  ELSE reqs[r].before

\* C28: get_directory_structure invokes the scanner once, with its own
\* override when it has one and with the shared ignore patterns of that
\* moment when it has none; it never writes the shared settings, which
\* never hold its override.
C28_ScanOverrideIsLocal ==
  \A r \in DOMAIN reqs :
    IsScan(reqs[r].msg) =>
      /\ Cardinality(CallsOf(r)) = 1
      /\ \A i \in CallsOf(r) :
           /\ calls[i].fn = "getDirectoryStructure"
           /\ calls[i].args = <<Str("/p"), PatternsFor(r)>>
      /\ ~reqs[r].wrote
      /\ IsUndef(reqs[r].original)
      /\ Truthy(reqs[r].msg.params.input.ignorePatterns) =>
           settings.ignorePatterns # reqs[r].msg.params.input.ignorePatterns

\* a scan handed its own override to the scanner while the override of a
\* generate_markdown call was in the shared settings
C28_Witness ==
  /\ settings.ignorePatterns = PatternsA
  /\ \E r \in DOMAIN reqs, i \in DOMAIN calls :
       /\ IsScan(reqs[r].msg)
       /\ calls[i].req = r
       /\ calls[i].args[2] = PatternsB

\* a well-formed generate_markdown call
IsGenerate(m) ==
  /\ IsCallOf(m, "generate_markdown")
  /\ Truthy(m.params.input.folderPath)

\* the invocations of collaborator fn made for request r
CallsTo(r, fn) == {i \in CallsOf(r) : calls[i].fn = fn}

RECURSIVE Preorder(_)
RECURSIVE PreorderAll(_)
\* the nodes of a tree, every node before its children, children in order
Preorder(node) ==
  <<node>> \o (IF "children" \in DOMAIN node THEN PreorderAll(node.children)
               ELSE <<>>)

PreorderAll(nodes) ==
  IF nodes = <<>> THEN <<>>
  ELSE Preorder(Head(nodes)) \o PreorderAll(Tail(nodes))

IsFileNode(node) == node.type = "file"

\* the paths of the file nodes of a tree, in depth-first order
FilesDepthFirst(tree) ==
  LET files == SelectSeq(Preorder(tree), IsFileNode)
  IN Arr([i \in DOMAIN files |-> files[i].path])

\* C29: generate_markdown with selectedPaths never invokes the scanner and
\* hands exactly selectedPaths to the assembler; without selectedPaths it
\* invokes the scanner once, before the assembler, and hands the assembler
\* the paths of the file nodes of the scanned tree in depth-first order;
\* the stats exist only after the assembler returned.
C29_PathsForAssembler ==
  \A r \in DOMAIN reqs :
    IsGenerate(reqs[r].msg) =>
      LET input == reqs[r].msg.params.input
          scans == CallsTo(r, "getDirectoryStructure")
          gens == CallsTo(r, "generateMarkdownContent")
      IN /\ Cardinality(gens) <= 1
         /\ CallsOf(r) = scans \cup gens
         /\ Truthy(input.selectedPaths) =>
              /\ scans = {}
              /\ \A i \in gens :
                   calls[i].args = <<input.folderPath, input.selectedPaths>>
         /\ ~Truthy(input.selectedPaths) =>
              /\ Cardinality(scans) = 1
              /\ \A i \in gens :
                   /\ \A j \in scans : j < i
                   /\ \E t \in disk.trees :
                        calls[i].args = <<input.folderPath, FilesDepthFirst(t)>>
         /\ ~IsUndef(reqs[r].stats) =>
              /\ gens # {}
              /\ reqs[r].pc \notin {"scan", "gen"}

\* one call with selected paths and one without both reached their stats
C29_Witness ==
  \E r1, r2 \in DOMAIN reqs :
    /\ IsGenerate(reqs[r1].msg) /\ IsGenerate(reqs[r2].msg)
    /\ reqs[r1].msg.params.input.selectedPaths = Arr(<<"/p/c", "/p/a">>)
    /\ IsUndef(reqs[r2].msg.params.input.selectedPaths)
    /\ ~IsUndef(reqs[r1].stats)
    /\ ~IsUndef(reqs[r2].stats)
    /\ \E i \in CallsTo(r2, "generateMarkdownContent") :
         calls[i].args[2] = Arr(<<"/p/a", "/p/d/b", "/p/c">>)

\* the scanner, the assembler and the two packaging tools
Collaborators ==
  {"getDirectoryStructure", "generateMarkdownContent",
   "processRemoteRepository", "processLocalRepositoryWithSecurity"}

\* a collaborator awaited by the handler of r failed
CollaboratorFailed(r) == Thrown(r) /\ reqs[r].threw.fail # LengthOfUndefined

\* C30: within one request every collaborator is invoked at most once;
\* once one of them failed the request invokes no collaborator any more (the
\* assembler is never called after a failed scan), and it is answered by one
\* error and never by a result.
C30_NoRetry ==
  /\ [](\A r \in DOMAIN reqs :
          /\ \A fn \in Collaborators : Cardinality(CallsTo(r, fn)) <= 1
          /\ CollaboratorFailed(r) =>
               /\ reqs[r].pc \notin Waiting
               /\ reqs[r].threw.fail = <<"ENOENT">> =>
                    CallsTo(r, "generateMarkdownContent") = {}
               /\ \A i \in ResponsesTo(r) :
                    IsError(stdout[i]) /\ ~IsResult(stdout[i])
               /\ reqs[r].pc = "done" => Cardinality(ResponsesTo(r)) = 1)
  /\ [][\A r \in DOMAIN reqs' :
          CollaboratorFailed(r)' =>
            {i \in DOMAIN calls' : calls'[i].req = r} = CallsOf(r)]_vars

\* a generate_markdown call whose scan failed was answered by an error,
\* and a packaging call whose tool failed as well
C30_Witness ==
  \E r1, r2 \in DOMAIN reqs :
    /\ IsGenerate(reqs[r1].msg)
    /\ CollaboratorFailed(r1) /\ CollaboratorFailed(r2)
    /\ reqs[r1].threw.fail = <<"ENOENT">>
    /\ reqs[r2].threw.fail = <<"clone failed">>
    /\ reqs[r1].pc = "done" /\ reqs[r2].pc = "done"
    /\ \E i \in ResponsesTo(r1) : IsError(stdout[i])
    /\ \E i \in ResponsesTo(r2) : IsError(stdout[i])

\* a count_tokens call with a text, or a well-formed generate_markdown call
ComputesStats(m) ==
  \/ IsCallOf(m, "count_tokens") /\ Truthy(m.params.input.text)
  \/ IsGenerate(m)

\* the text whose stats response i to request r reports
TextOf(r, i) ==
  IF ToolOf(reqs[r]) = "count_tokens" THEN reqs[r].msg.params.input.text.str
  ELSE stdout[i].result.result.markdownContent

\* C31: a tokenizer that is unavailable never fails the request: unless the
\* scanner or the assembler failed, a count_tokens or generate_markdown call
\* is answered by a success whose stats hold the length of the text and
\* openAiTokens = -1 when there is no tokenizer; a failure of the scanner or
\* of the assembler is answered by an error.
C31_TokenFailureSwallowed ==
  \A r \in DOMAIN reqs :
    ComputesStats(reqs[r].msg) =>
      /\ \A i \in ResponsesTo(r) :
           IF Thrown(r) THEN IsError(stdout[i]) /\ ~IsResult(stdout[i])
           ELSE /\ IsResult(stdout[i]) /\ ~IsError(stdout[i])
                /\ stdout[i].result.result.success
                /\ stdout[i].result.result.stats.characterCount = Len(TextOf(r, i))
                /\ ~tiktoken => stdout[i].result.result.stats.openAiTokens = -1
                /\ tiktoken => stdout[i].result.result.stats.openAiTokens >= 0
      /\ reqs[r].pc = "done" => Cardinality(ResponsesTo(r)) = 1

\* without a tokenizer a generate_markdown call and a count_tokens call were
\* both answered by a success with openAiTokens = -1
C31_Witness ==
  /\ ~tiktoken
  /\ \E r1, r2 \in DOMAIN reqs :
       /\ IsGenerate(reqs[r1].msg)
       /\ IsCallOf(reqs[r2].msg, "count_tokens")
       /\ \E i \in ResponsesTo(r1), j \in ResponsesTo(r2) :
            /\ IsResult(stdout[i]) /\ IsResult(stdout[j])
            /\ stdout[i].result.result.stats.openAiTokens = -1
            /\ stdout[i].result.result.stats.characterCount = 5
            /\ stdout[j].result.result.stats.openAiTokens = -1

\* the least number of four-character groups that cover n characters
CeilOfQuarter(n) == CHOOSE k \in 0..n : 4 * k >= n /\ (k = 0 \/ 4 * (k - 1) < n)

\* the remote token counter answered request r with a token list
RemoteCounted(r) ==
  /\ "ok" \in DOMAIN reqs[r].reply
  /\ "tokens" \in DOMAIN reqs[r].reply.ok

IsPackRemote(m) ==
  /\ IsCallOf(m, "pack_remote_repository")
  /\ Truthy(m.params.input.repoUrl)

\* a process_with_security call with a folderPath
IsProcessWithSecurity(m) ==
  /\ IsCallOf(m, "process_with_security")
  /\ Truthy(m.params.input.folderPath)

\* the option the packaging tool has to receive for a requested value
Requested(v, omitted) == IF IsUndef(v) THEN omitted ELSE v

\* the arguments the packaging tool has to receive for request r
PackagingArgs(r) ==
  LET input == reqs[r].msg.params.input IN
  IF IsPackRemote(reqs[r].msg)
  THEN <<input.repoUrl,
         [securityCheck |-> Requested(input.securityCheck, Bool(FALSE)),
          style |-> Requested(input.style, Str("markdown"))]>>
  ELSE <<input.folderPath,
         [style |-> Requested(input.style, Str("markdown"))]>>

\* the text a failure of the packaging tool of request r is wrapped in
Wrapper(r) ==
  IF IsPackRemote(reqs[r].msg) THEN <<"Error processing remote repository: ">>
  ELSE <<"Error processing with security: ">>

\* C33: without the packaging collaborator, pack_remote_repository and
\* process_with_security invoke nothing and are answered by one error and
\* never by a result; with it, the tool is invoked once, with
\* securityCheck = false and style = "markdown" for the options the request
\* omits, and its failure is answered by an error whose message holds the
\* tool's message inside the handler's wrapper.
C33_Packaging ==
  \A r \in DOMAIN reqs :
    (IsPackRemote(reqs[r].msg) \/ IsProcessWithSecurity(reqs[r].msg)) =>
      /\ reqs[r].pc = "done" => Cardinality(ResponsesTo(r)) = 1
      /\ IF ~repoMixIntegration
         THEN /\ CallsOf(r) = {}
              /\ \A i \in ResponsesTo(r) :
                   /\ IsError(stdout[i]) /\ ~IsResult(stdout[i])
                   /\ Contains(i, <<"RepoMix integration not initialized">>)
         ELSE /\ Cardinality(CallsOf(r)) = 1
              /\ \A i \in CallsOf(r) : calls[i].args = PackagingArgs(r)
              /\ \A i \in ResponsesTo(r) :
                   IF Thrown(r)
                   THEN /\ IsError(stdout[i]) /\ ~IsResult(stdout[i])
                        /\ Contains(i, Wrapper(r) \o reqs[r].threw.fail)
                   ELSE IsResult(stdout[i])

\* on an engine without the packaging collaborator both tools were
\* answered by an error
C33_Witness ==
  /\ ~repoMixIntegration
  /\ \E r1, r2 \in DOMAIN reqs :
       /\ IsPackRemote(reqs[r1].msg)
       /\ IsProcessWithSecurity(reqs[r2].msg)
       /\ \E i \in ResponsesTo(r1) : IsError(stdout[i])
       /\ \E i \in ResponsesTo(r2) : IsError(stdout[i])

\* the entries the MCP engine adds to the log in this step
NewMcpEntries ==
  {i \in DOMAIN http' : i \notin DOMAIN http /\ http'[i].route = "mcp"}

\* C34: the MCP engine of the application works on the live settings:
\* whatever it answers to resources/get settings and whatever patterns and
\* credential it hands to its collaborators are those of the settings the
\* application saved last.
C34_LiveSettings ==
  [][\A i \in NewMcpEntries :
       http'[i].body = McpAnswer(heap[userSettings], http'[i].msg)]_vars

\* C35: a stopped engine handles no further input: once stop() was called
\* the instance dispatches no message, and the only responses it still
\* writes belong to requests it had received before.
C35_StoppedIsSilent ==
  [][stopped =>
       /\ Len(reqs') = Len(reqs)
       /\ \A i \in DOMAIN stdout' :
            (i \notin DOMAIN stdout /\ IsResponse(stdout'[i])) =>
              stdout'[i].req \in DOMAIN reqs]_vars

\* no start or stop of a server is under way
NothingPending ==
  \A i \in DOMAIN tasks :
    /\ tasks[i].op \notin {"ready", "api-start", "api-stop"}
    /\ tasks[i].op = "write" => tasks[i].then \notin StartStopChannels

\* C36: whenever no start or stop is under way, an API server instance
\* exists exactly when apiServerEnabled is true and an MCP server instance
\* exactly when mcpServerEnabled is true.
C36_InstanceMatchesFlag ==
  NothingPending =>
    /\ (apiServer # Null) = Truthy(heap[userSettings].apiServerEnabled)
    /\ (mcpServer # Null) = Truthy(heap[userSettings].mcpServerEnabled)

\* the server of the API server instance is listening or on its way there
\* or back
ApiServerLive ==
  /\ apiServer # Null
  /\ \/ apiServer.server \in {"binding", "listening", "closing"}
     \/ \E i \in DOMAIN tasks : tasks[i].op = "api-start"

\* start-api-server, invoked now, would be refused at once
StartRefused ==
  LET ap == StartStopInvoked(App, "start-api-server") IN
  /\ Len(ap.http) = Len(http) + 1
  /\ ~ap.http[Len(ap.http)].body.success

\* C37: get-api-server-status reports running: true only for a server that
\* is listening or starting or stopping, never for one whose start failed,
\* and start-api-server is refused only then.
C37_StatusAfterFailedStart ==
  /\ GetApiServerStatus(App).running => ApiServerLive
  /\ StartRefused => ApiServerLive

\* the API server instance was made from settings that carry the default
\* port of main.js
WithDefaultPort ==
  /\ apiServer # Null
  /\ heap[apiServer.settings].apiServerPort = DefaultSettings.apiServerPort

\* C38: an API server started with the default port has a port that listen
\* accepts, so its start gets as far as binding.
C38_DefaultPortValid ==
  WithDefaultPort =>
    /\ ValidPort(apiServer.port)
    /\ apiServer.server # "none"

\* C39: a packaging run reads back and deletes only the file its own
\* subprocess wrote, always finds that file, and the call is answered with
\* the document of its own run.
C39_OwnTempFile ==
  \A run \in disk.runs :
    /\ run.phase \notin {"missing", "enoent"}
    /\ run.phase \in {"unlink", "return"} => run.from = run.req
    /\ run.phase = "return" => run.removed = run.req

====
